---------------------------- MODULE Spec2Model ----------------------------
(***************************************************************************)
(* Model of the Edgehog OTA update engine (lib/edgehog_device/ota.c):      *)
(* the command handlers (Update / Cancel), the OTA worker thread, the      *)
(* HTTP download sink, the persisted OTA record and the boot-time          *)
(* reconciliation done by edgehog_ota_init.                                *)
(*                                                                         *)
(* Threads: the telemetry task runs the command handlers (one command at   *)
(* a time, each handler is one action), the OTA worker is spawned per      *)
(* admitted Update and advances one blocking call at a time, the main      *)
(* supervisor runs the reconciliation after every boot.                    *)
(***************************************************************************)
EXTENDS Integers, Naturals, Sequences, FiniteSets, TLC

(***************************************************************************)
(* Bounds of the model.                                                    *)
(***************************************************************************)
\* Update commands delivered over the whole run; the k-th carries the uuid k.
MaxUpdates == 2
\* Cancel commands delivered over the whole run.
MaxCancels == 1
\* Commands (of either kind) delivered in a run with failures (scope "faults").
MaxCommands == 2
\* Injected failures of settings / flash / bootloader / allocation calls.
MaxFaults == 1
\* Power losses or resets that are not the worker's own sys_reboot.
MaxCrashes == 1
\* Steps explored while a worker whose thread object was given to a newer
\* worker is still running.
MaxRaceSteps == 4
\* Commands that edgehog_ota_event rejects by itself, per run.
MaxInvalid == 1
\* Chunks the HTTP downloader delivers for one complete image (1 byte each).
NumChunks == 2
\* Deliveries of the Astarte connection callback (first connection and
\* reconnections) in a run of the sample application (scope "startup").
MaxConnections == 2
\* Calls of pub_ota_event in a run that looks at the event it builds (scope
\* "events").
MaxEvents == 1
\* Bytes of the image in a run that looks at the progress reports (scope
\* "download"); the downloader cuts them into chunks of any sizes.
ImageBytes == 30

(***************************************************************************)
(* Program constants.                                                      *)
(***************************************************************************)
MAX_OTA_RETRY == 5
OTA_PROGRESS_PERC == 100
OTA_PROGRESS_PERC_ROUNDING_STEP == 10
OTA_ATTEMPS_DELAY_MS == 2000
ASTARTE_UUID_STR_LEN == 36
OTA_STATE_IDLE == 1
OTA_STATE_IN_PROGRESS == 2
OTA_STATE_REBOOT == 3
\* Bit numbers of device_threads_flags (main.c).
DEVICE_THREADS_FLAGS_TERMINATION == 1
DEVICE_THREADS_FLAGS_CREATE_EDGEHOG == 2
DEVICE_THREADS_FLAGS_CONNECT_ASTARTE == 3
DEVICE_THREADS_FLAGS_START_EDGEHOG == 4

\* ota/state as stored: 0 stands for "key never written" (zeroed ota_settings_t).
OtaStates == {0, OTA_STATE_IDLE, OTA_STATE_IN_PROGRESS, OTA_STATE_REBOOT}

\* Request uuids.  The k-th Update command carries the uuid k; 0 is the NULL
\* pointer / the empty string of a zeroed buffer; Garbage is the content read
\* through a pointer whose allocation was already freed and reused.
Uuids == 1..MaxUpdates
NoUuid == 0
Garbage == -1

\* strlen() of a uuid string: real request uuids are 36 characters long, the
\* zeroed buffer is empty, reused memory holds no 36-character string.
StrLen(u) == IF u \in Uuids THEN ASTARTE_UUID_STR_LEN ELSE 0

\* edgehog_result_t values used by the OTA path.
Results ==
    { "OK", "OTA_INVALID_REQUEST", "OTA_ALREADY_IN_PROGRESS", "NETWORK_ERROR",
      "HTTP_REQUEST_ERROR", "SETTINGS_INIT_FAIL", "SETTINGS_SAVE_FAIL",
      "SETTINGS_LOAD_FAIL", "SETTINGS_DELETE_FAIL", "OTA_INVALID_IMAGE",
      "OTA_SYSTEM_ROLLBACK", "OTA_CANCELED", "OTA_INTERNAL_ERROR",
      "OTA_ERASE_SECOND_SLOT_ERROR", "OTA_INIT_FLASH_ERROR",
      "OTA_WRITE_FLASH_ERROR", "OTA_SWAP_FAIL", "OUT_OF_MEMORY",
      "THREAD_CREATE_ERROR", "INTERNAL_ERROR" }

\* A statusCode switch with OTA_SWAP_FAIL among the rollback cases.
StatusCodeSwapFailAsRollback(error) ==
    CASE error = "OK" -> ""
      [] error = "OTA_INVALID_REQUEST" -> "InvalidRequest"
      [] error = "OTA_ALREADY_IN_PROGRESS" -> "UpdateAlreadyInProgress"
      [] error = "NETWORK_ERROR" -> "ErrorNetwork"
      [] error \in { "SETTINGS_INIT_FAIL", "SETTINGS_SAVE_FAIL",
                     "SETTINGS_LOAD_FAIL", "SETTINGS_DELETE_FAIL" } -> "IOError"
      [] error = "OTA_INVALID_IMAGE" -> "InvalidBaseImage"
      [] error \in { "OTA_SYSTEM_ROLLBACK", "OTA_SWAP_FAIL" } -> "SystemRollback"
      [] error = "OTA_CANCELED" -> "Canceled"
      [] OTHER -> "InternalError"

\* pub_ota_event: the statusCode string sent for an edgehog_result_t.
StatusCode(error) ==
    CASE error = "OK" -> ""
      [] error = "OTA_INVALID_REQUEST" -> "InvalidRequest"
      [] error = "OTA_ALREADY_IN_PROGRESS" -> "UpdateAlreadyInProgress"
      [] error = "NETWORK_ERROR" -> "ErrorNetwork"
      [] error \in { "SETTINGS_INIT_FAIL", "SETTINGS_SAVE_FAIL",
                     "SETTINGS_LOAD_FAIL", "SETTINGS_DELETE_FAIL" } -> "IOError"
      [] error = "OTA_INVALID_IMAGE" -> "InvalidBaseImage"
      [] error = "OTA_SYSTEM_ROLLBACK" -> "SystemRollback"
      [] error = "OTA_CANCELED" -> "Canceled"
      [] OTHER -> "InternalError"

\* ota_event_t, and the status string pub_ota_event sends for each value.
OtaEvents ==
    { "OTA_EVENT_ACKNOWLEDGED", "OTA_EVENT_DOWNLOADING", "OTA_EVENT_DEPLOYING",
      "OTA_EVENT_DEPLOYED", "OTA_EVENT_REBOOTING", "OTA_EVENT_SUCCESS",
      "OTA_EVENT_ERROR", "OTA_EVENT_FAILURE" }

EventStatus(event) ==
    CASE event = "OTA_EVENT_ACKNOWLEDGED" -> "Acknowledged"
      [] event = "OTA_EVENT_DOWNLOADING" -> "Downloading"
      [] event = "OTA_EVENT_DEPLOYING" -> "Deploying"
      [] event = "OTA_EVENT_DEPLOYED" -> "Deployed"
      [] event = "OTA_EVENT_REBOOTING" -> "Rebooting"
      [] event = "OTA_EVENT_SUCCESS" -> "Success"
      [] event = "OTA_EVENT_FAILURE" -> "Failure"
      [] OTHER -> "Error"

\* pub_ota_event: the aggregated object sent on OTAEvent/event.
OtaEvent(request_uuid, status, status_progress, error, message) ==
    [ requestUUID |-> request_uuid, status |-> status,
      statusProgress |-> status_progress, statusCode |-> StatusCode(error),
      message |-> message ]

VARIABLES
    phase,      \* "boot": edgehog_ota_init has not finished; "run": commands are served
    rpc,        \* position of edgehog_ota_init (the reconciler) while phase = "boot"
    rset,       \* the reconciler's local ota_settings_t
    run_bit,    \* OTA_STATE_RUN_BIT of ota_thread_data.ota_run_state
    td,         \* ota_thread_data: request pointers, flash_ctx, sizes, last_perc_sent
    freed,      \* request allocations already passed to free()
    reused,     \* freed allocations whose memory was handed out again and overwritten
    wk,         \* the OTA worker threads: position and locals of each
    settings,   \* the persisted record: ota/state and ota/req_id
    boot,       \* bootloader: upgrade pending, swap type, image confirmed
    wlog,       \* events published by each worker thread, in order, kept until
                \* the thread starts its selfdestruct (it publishes nothing after)
    hlog,       \* events published by the command handlers (telemetry task)
    rlog,       \* events published by edgehog_ota_init
    hret,       \* value returned by the last command handler
    seq,        \* per request uuid: how far the status values published for it by
                \* the workers and by edgehog_ota_init have got in the protocol
    n_updates, n_cancels, n_faults, n_crashes, n_race,
    cmd,        \* the fields of the last command handed to edgehog_ota_event
    n_invalid,  \* commands that edgehog_ota_event turned down by itself
    app,        \* the sample application (main.c): device_threads_flags, the two
                \* device handles and the positions of its threads
    gai,        \* a caller of edgehog_getaddrinfo: the build options, the arguments
                \* of its call, the value returned, its res pointer and the heap
    scope       \* what the environment may do in this run, fixed at the start:
                \* "faults": failing calls, failing network, crashes, MaxCommands commands;
                \* "startup": the threads of the sample application, nothing else;
                \* "events": pub_ota_event called with every ota_event_t and every
                \*         edgehog_result_t, nothing else;
                \* "download": one Update, nothing fails, an image of ImageBytes
                \*         bytes delivered in chunks of any sizes;
                \* "reboots": one Update, failing calls, then a reset of the idle
                \*         device after edgehog_ota_init has returned;
                \* "resolver": one call of edgehog_getaddrinfo with any arguments,
                \*         then edgehog_freeaddrinfo, nothing else;
                \* "network": connections that may fail, calls that never fail,
                \*         MaxUpdates Update and MaxCancels Cancel commands;
                \* "race": a network and calls that never fail, every command,
                \*         the commands edgehog_ota_event rejects by itself included

vars == << phase, rpc, rset, run_bit, td, freed, reused, wk, settings, boot,
           wlog, hlog, rlog, hret, seq, n_updates, n_cancels, n_faults, n_crashes,
           n_race, scope, cmd, n_invalid, app, gai >>


(***************************************************************************)
(* The status protocol of one request, followed event by event: Acknowledged,*)
(* Downloading any number of times, up to four Error each followed by any  *)
(* number of Downloading, then either Deploying Deployed Rebooting and a   *)
(* final Success or Failure, or a final Failure at once.  "rejected" means *)
(* the published sequence left the protocol.                               *)
(***************************************************************************)
\* terminals: the Success and Failure events published for the request so
\* far, counted up to two.
SeqStart == [at |-> "start", errors |-> 0, terminals |-> 0]

SeqStep(q, status) ==
    CASE q.at = "start" /\ status = "Acknowledged" -> [q EXCEPT !.at = "downloading"]
      [] q.at = "downloading" /\ status = "Downloading" -> q
      [] q.at = "downloading" /\ status = "Error" /\ q.errors < 4 ->
            [q EXCEPT !.errors = @ + 1]
      [] q.at = "downloading" /\ status = "Deploying" -> [at |-> "deploying", errors |-> 0]
      [] q.at = "deploying" /\ status = "Deployed" -> [q EXCEPT !.at = "deployed"]
      [] q.at = "deployed" /\ status = "Rebooting" -> [q EXCEPT !.at = "rebooting"]
      [] q.at = "rebooting" /\ status = "Success" -> [q EXCEPT !.at = "success"]
      [] q.at \in {"downloading", "rebooting"} /\ status = "Failure" ->
            [at |-> "failure", errors |-> 0]
      [] OTHER -> [at |-> "rejected", errors |-> 0]

\* seq after an event with the uuid string s and the given status was published;
\* an event whose uuid string is no request's uuid belongs to no sequence.
SeqAfter(s, status) ==
    IF s \in Uuids
    THEN [seq EXCEPT ![s] =
            [ at |-> SeqStep(@, status).at,
              errors |-> SeqStep(@, status).errors,
              terminals |-> IF status \in {"Success", "Failure"} /\ @.terminals < 2
                            THEN @.terminals + 1 ELSE @.terminals ]]
    ELSE seq

(***************************************************************************)
(* Initial state: a factory-fresh device at its first boot.  Nothing is    *)
(* persisted yet, the running image is confirmed, no worker exists and     *)
(* edgehog_ota_init is about to run.                                       *)
(***************************************************************************)
\* main.c when main() has spawned the Astarte and the Edgehog thread: the
\* static device_threads_flags and device handles are zero, both threads are
\* at their entry points, no connection callback was delivered.
AppStart ==
    [ device_threads_flags |-> {},
      astarte_device |-> "null", edgehog_device |-> "null",
      main |-> "run", astarte |-> "new", edgehog |-> "wait_create",
      connection_cbk |-> 0 ]

\* memset(&edgehog_dev->ota_thread, 0, ...) / memset(ota_thread_data, 0, ...)
ZeroThreadData ==
    [ uuid |-> NoUuid, download_url |-> NoUuid, bytes_written |-> 0,
      image_size |-> 0, download_size |-> 0, last_perc_sent |-> 0 ]

\* stale: the thread object and stack of this worker were given to a newer one;
\* cancelled: a Cancel was accepted while this worker was inside edgehog_http_download;
\* late_cancel: a Cancel was accepted after this worker's boot_request_upgrade;
\* slept: the milliseconds this worker has spent in back-off sleeps;
\* deploy_failed: boot_read_bank_header or boot_request_upgrade failed for it.
NoWorker ==
    [ pc |-> "none", req_uuid |-> NoUuid, attempts |-> 0, chunk |-> 0,
      dl_res |-> "OK", result |-> "OK", stale |-> FALSE, cancelled |-> FALSE,
      late_cancel |-> FALSE, slept |-> 0, deploy_failed |-> FALSE ]

\* No command was received yet: every field of the request is NULL.
NoCommand == [ uuid |-> NoUuid, operation |-> "", url |-> NoUuid ]

\* The entries a received object may carry: "uuid" and "url" present or not,
\* "operation" absent (""), "Update", "Cancel" or any other string ("Other").
Operations == {"", "Update", "Cancel", "Other"}
Commands == [ uuid : Uuids \cup {NoUuid}, operation : Operations, url : Uuids \cup {NoUuid} ]

ZeroSettings == [ uuid |-> NoUuid, ota_state |-> 0 ]

\* A null pointer handed to or stored by edgehog_getaddrinfo.
NULL == "NULL"

\* getaddrinfo.c before the first call of edgehog_getaddrinfo: the caller's res
\* pointer holds nothing yet, the heap holds no result array.
\* CONFIG_DNS_RESOLVER: whether the build has the DNS resolver;
\* heap: whether the result array is allocated; callocs, frees: the calls of
\* edgehog_calloc that returned the array and of edgehog_free that were handed
\* it; literal_calls, dns_calls: the calls of try_resolve_literal_addr and of
\* z_zsock_getaddrinfo_internal; literal_ret: what the former returned;
\* ai: the zsock_addrinfo fields written into the array.
NoAddrinfo == [ ai_family |-> "AF_UNSPEC", ai_socktype |-> "0", ai_protocol |-> "0", port |-> 0 ]

GaiStart ==
    [ pc |-> "idle", CONFIG_DNS_RESOLVER |-> TRUE,
      host |-> NULL, service |-> NULL, hints |-> << >>,
      ret |-> 0, res |-> "unset", heap |-> "free",
      callocs |-> 0, frees |-> 0, literal_calls |-> 0, literal_ret |-> 0,
      dns_calls |-> 0, ai |-> NoAddrinfo ]

PowerOn ==
    /\ phase = "boot"
    /\ rpc = "load"
    /\ rset = ZeroSettings
    /\ run_bit = FALSE
    /\ td = ZeroThreadData
    /\ freed = {}
    /\ reused = {}
    /\ wk = [w \in Uuids |-> NoWorker]
    /\ settings = [state |-> 0, req_id |-> NoUuid]
    /\ boot = [pending |-> FALSE, swap_type |-> "NONE", confirmed |-> TRUE]
    /\ wlog = [w \in Uuids |-> << >>]
    /\ hlog = << >>
    /\ rlog = << >>
    /\ hret = "OK"
    /\ seq = [u \in Uuids |-> SeqStart]
    /\ n_updates = 0 /\ n_cancels = 0 /\ n_faults = 0 /\ n_crashes = 0
    /\ n_race = 0
    /\ cmd = NoCommand /\ n_invalid = 0
    /\ app = AppStart

\* The same with the build that has the DNS resolver.
Booting == PowerOn /\ gai = GaiStart

Init == Booting /\ scope = "faults"

InitRace == Booting /\ scope = "race"

InitDownload == Booting /\ scope = "download"

InitEvents == Booting /\ scope = "events"

InitStartup == Booting /\ scope = "startup"

InitNetwork == Booting /\ scope = "network"

InitReboots == Booting /\ scope = "reboots"

\* A build with or without the DNS resolver, before edgehog_getaddrinfo is called.
InitResolver ==
    /\ scope = "resolver"
    /\ PowerOn
    /\ \E dns \in BOOLEAN : gai = [GaiStart EXCEPT !.CONFIG_DNS_RESOLVER = dns]

\* A call into the settings store, the flash driver, the bootloader or the
\* allocator may fail, a transfer may break off half way; the model injects
\* at most MaxFaults such failures, and none in a run that has a crash.
CanFault ==
    \/ scope = "faults" /\ n_faults < MaxFaults /\ n_crashes = 0
    \/ scope = "reboots" /\ n_faults < MaxFaults

\* Worker threads that were started and have neither returned nor been lost.
Live(w) == wk[w].pc \notin {"none", "done", "clobbered"}
LiveWorkers == {w \in Uuids : Live(w)}

\* A live worker runs although its thread object belongs to a newer worker.
Racing == \E w \in LiveWorkers : wk[w].stale

\* A step of any thread: while workers race, at most MaxRaceSteps are explored.
RaceStep ==
    IF Racing THEN n_race < MaxRaceSteps /\ n_race' = n_race + 1
    ELSE UNCHANGED n_race

(***************************************************************************)
(* Settings store (lib/edgehog_device/settings.c is not part of the        *)
(* sources at hand: modelled from its contract).  A save replaces one key  *)
(* atomically, a delete removes one key; either may fail and then leaves   *)
(* the record as it was.                                                   *)
(***************************************************************************)
SettingsSaved(key, value) == [settings EXCEPT ![key] = value]
SettingsDeleted(key) == [settings EXCEPT ![key] = NoUuid]

\* ota_settings_loader: copies ota/state and ota/req_id into an ota_settings_t.
OtaSettingsLoaded == [ uuid |-> settings.req_id, ota_state |-> settings.state ]

(***************************************************************************)
(* Boot: the bootloader decides which image runs, every volatile object is *)
(* gone, edgehog_ota_init starts over.                                     *)
(***************************************************************************)
\* mcuboot_swap_type(): the code tells BOOT_SWAP_TYPE_NONE from every other
\* value only; REVERT stands for the others.
SwapTypes == {"NONE", "REVERT"}

\* What mcuboot reports after a reset.  With an upgrade requested (or a test
\* image still unconfirmed) the swap may have worked (NONE, unconfirmed) or
\* not; otherwise the confirmed image simply runs again.
BootVerdicts ==
    IF boot.pending \/ ~boot.confirmed
    THEN [pending : {FALSE}, swap_type : SwapTypes, confirmed : BOOLEAN]
    ELSE {[pending |-> FALSE, swap_type |-> "NONE", confirmed |-> TRUE]}

Rebooted ==
    /\ phase' = "boot"
    /\ rpc' = "load"
    /\ rset' = ZeroSettings
    /\ run_bit' = FALSE
    /\ td' = ZeroThreadData
    /\ freed' = {}
    /\ reused' = {}
    /\ wk' = [w \in Uuids |-> NoWorker]
    /\ boot' \in BootVerdicts
    /\ wlog' = [w \in Uuids |-> << >>]
    /\ n_race' = 0
    /\ UNCHANGED << settings, seq, hlog, rlog, hret, n_updates, n_cancels, n_faults, scope, app, gai, cmd, n_invalid >>

\* Power loss, watchdog or fatal error: at any point of a run without injected
\* failures (scope "faults"), or when edgehog_ota_init has returned and no
\* Update was handled since the boot (scope "reboots").
Crash ==
    /\ \/ scope = "faults" /\ n_faults = 0
       \/ /\ scope = "reboots"
          /\ phase = "run" /\ \A w \in Uuids : wk[w].pc = "none"
    /\ n_crashes < MaxCrashes
    /\ n_crashes' = n_crashes + 1
    /\ Rebooted

(***************************************************************************)
(* edgehog_ota_init: boot-time reconciliation (main supervisor).           *)
(***************************************************************************)
ReconcileDone ==
    /\ phase' = "run"
    /\ rpc' = "done"

\* edgehog_settings_load fails: the function returns without touching the record.
InitLoadFail ==
    /\ phase = "boot" /\ rpc = "load"
    /\ CanFault /\ n_faults' = n_faults + 1
    /\ ReconcileDone
    /\ UNCHANGED << rset, run_bit, td, freed, reused, wk, settings, boot, wlog, seq, hlog, hret,
                    rlog, n_updates, n_cancels, n_crashes, n_race, scope, app, gai, cmd, n_invalid >>

\* The checks without the test of boot_is_img_confirmed.
InitVerdictWithoutConfirmedTest(s) ==
    IF StrLen(s.uuid) # ASTARTE_UUID_STR_LEN THEN "none"
    ELSE IF s.ota_state # OTA_STATE_REBOOT THEN "OTA_INTERNAL_ERROR"
    ELSE IF boot.swap_type # "NONE" THEN "OTA_SWAP_FAIL"
    ELSE "confirm"

\* The checks that follow a successful load, up to the call that confirms the image.
InitVerdict(s) ==
    IF StrLen(s.uuid) # ASTARTE_UUID_STR_LEN THEN "none"
    ELSE IF s.ota_state # OTA_STATE_REBOOT THEN "OTA_INTERNAL_ERROR"
    ELSE IF boot.swap_type # "NONE" THEN "OTA_SWAP_FAIL"
    ELSE IF boot.confirmed THEN "OTA_SWAP_FAIL"
    ELSE "confirm"

InitLoadCheck ==
    /\ phase = "boot" /\ rpc = "load"
    /\ rset' = OtaSettingsLoaded
    /\ LET v == InitVerdict(OtaSettingsLoaded) IN
         /\ rpc' = (IF v = "confirm" THEN "confirm" ELSE "delete")
         /\ rlog' = (IF v \in {"none", "confirm"} THEN rlog
                     ELSE Append(rlog, OtaEvent(OtaSettingsLoaded.uuid, "Failure", 0, v, "")))
         /\ seq' = (IF v \in {"none", "confirm"} THEN seq
                    ELSE SeqAfter(OtaSettingsLoaded.uuid, "Failure"))
    /\ UNCHANGED << phase, run_bit, td, freed, reused, wk, settings, boot, wlog, hlog, hret,
                    n_updates, n_cancels, n_faults, n_crashes, n_race, scope, app, gai, cmd, n_invalid >>

\* boot_write_img_confirmed succeeds.
InitConfirm ==
    /\ phase = "boot" /\ rpc = "confirm"
    /\ boot' = [boot EXCEPT !.confirmed = TRUE]
    /\ rpc' = "success"
    /\ UNCHANGED << phase, rset, run_bit, td, freed, reused, wk, settings, wlog, seq, hlog, hret,
                    rlog, n_updates, n_cancels, n_faults, n_crashes, n_race, scope, app, gai, cmd, n_invalid >>

\* boot_write_img_confirmed fails.
InitConfirmFail ==
    /\ phase = "boot" /\ rpc = "confirm"
    /\ CanFault /\ n_faults' = n_faults + 1
    /\ rlog' = Append(rlog, OtaEvent(rset.uuid, "Failure", 0, "OTA_INTERNAL_ERROR", ""))
    /\ seq' = SeqAfter(rset.uuid, "Failure")
    /\ rpc' = "delete"
    /\ UNCHANGED << phase, rset, run_bit, td, freed, reused, wk, settings, boot, wlog,
                    hlog, hret, n_updates, n_cancels, n_crashes, n_race, scope, app, gai, cmd, n_invalid >>

InitSuccess ==
    /\ phase = "boot" /\ rpc = "success"
    /\ rlog' = Append(rlog, OtaEvent(rset.uuid, "Success", 0, "OK", ""))
    /\ seq' = SeqAfter(rset.uuid, "Success")
    /\ rpc' = "delete"
    /\ UNCHANGED << phase, rset, run_bit, td, freed, reused, wk, settings, boot, wlog,
                    hlog, hret, n_updates, n_cancels, n_faults, n_crashes, n_race, scope, app, gai, cmd, n_invalid >>

\* end: edgehog_settings_delete(OTA_KEY, OTA_REQUEST_ID_KEY), result ignored.
InitDelete ==
    /\ phase = "boot" /\ rpc = "delete"
    /\ \/ settings' = SettingsDeleted("req_id") /\ UNCHANGED n_faults
       \/ CanFault /\ n_faults' = n_faults + 1 /\ UNCHANGED settings
    /\ rpc' = "save"
    /\ UNCHANGED << phase, rset, run_bit, td, freed, reused, wk, boot, wlog, seq, hlog, hret, rlog,
                    n_updates, n_cancels, n_crashes, n_race, scope, app, gai, cmd, n_invalid >>

\* end: edgehog_settings_save(OTA_KEY, OTA_STATE_KEY, IDLE), result ignored.
InitSave ==
    /\ phase = "boot" /\ rpc = "save"
    /\ \/ settings' = SettingsSaved("state", OTA_STATE_IDLE) /\ UNCHANGED n_faults
       \/ CanFault /\ n_faults' = n_faults + 1 /\ UNCHANGED settings
    /\ rset' = [rset EXCEPT !.ota_state = OTA_STATE_IDLE]
    /\ ReconcileDone
    /\ UNCHANGED << run_bit, td, freed, reused, wk, boot, wlog, seq, hlog, hret, rlog,
                    n_updates, n_cancels, n_crashes, n_race, scope, app, gai, cmd, n_invalid >>

edgehog_ota_init ==
    \/ InitLoadFail \/ InitLoadCheck \/ InitConfirm \/ InitConfirmFail
    \/ InitSuccess \/ InitDelete \/ InitSave

(***************************************************************************)
(* edgehog_ota_event: commands arriving from the telemetry client, handled *)
(* one at a time on the telemetry task once edgehog_ota_init has returned. *)
(***************************************************************************)
CommandBudget ==
    n_updates + n_cancels + n_invalid <
        (IF scope = "race" THEN MaxUpdates + MaxCancels + MaxInvalid
         ELSE IF scope = "network" THEN MaxUpdates + MaxCancels
         ELSE IF scope = "reboots" THEN (IF n_crashes = 0 THEN 1 ELSE 0)
         ELSE IF scope = "download" THEN 1
         ELSE MaxCommands)

\* An Update command carrying the uuid u is dispatched to edgehog_ota_event_update.
UpdateArrives(u) ==
    /\ phase = "run"
    /\ CommandBudget /\ u = n_updates + 1
    /\ n_updates' = u
    /\ cmd' = [ uuid |-> u, operation |-> "Update", url |-> u ]
    /\ UNCHANGED << phase, rpc, rset, settings, boot, wlog, seq, rlog, n_cancels,
                    n_crashes, n_race, scope, app, gai, n_invalid >>

\* A Cancel command carrying the uuid c is dispatched to edgehog_ota_event_cancel.
CancelArrives(c) ==
    /\ phase = "run"
    /\ CommandBudget /\ n_cancels < MaxCancels
    /\ n_cancels' = n_cancels + 1
    /\ cmd' = [ uuid |-> c, operation |-> "Cancel", url |-> NoUuid ]
    /\ UNCHANGED << phase, rpc, rset, td, freed, reused, settings, boot, wlog, seq,
                    rlog, n_updates, n_crashes, n_race, scope, app, gai, n_invalid >>

(***************************************************************************)
(* edgehog_ota_event_update: the Update command.  u is the uuid it carries.*)
(***************************************************************************)
\* A rejection that reports the running request's uuid instead of the new one.
UpdateRejectedRunningUuid(u) ==
    /\ UpdateArrives(u)
    /\ run_bit
    /\ hlog' = Append(hlog, OtaEvent(td.uuid, "Failure", 0, "OTA_ALREADY_IN_PROGRESS", ""))
    /\ hret' = "OTA_ALREADY_IN_PROGRESS"
    /\ UNCHANGED << run_bit, td, freed, reused, wk, n_faults >>

\* A rejection that tests the run bit only after the memset of ota_thread_data.
UpdateRejectedAfterMemset(u) ==
    /\ UpdateArrives(u)
    /\ run_bit
    /\ td' = ZeroThreadData
    /\ hlog' = Append(hlog, OtaEvent(u, "Failure", 0, "OTA_ALREADY_IN_PROGRESS", ""))
    /\ hret' = "OTA_ALREADY_IN_PROGRESS"
    /\ UNCHANGED << run_bit, freed, reused, wk, n_faults >>

\* Run bit already set: one Failure / UpdateAlreadyInProgress event, nothing else.
UpdateRejected(u) ==
    /\ UpdateArrives(u)
    /\ run_bit
    /\ hlog' = Append(hlog, OtaEvent(u, "Failure", 0, "OTA_ALREADY_IN_PROGRESS", ""))
    /\ hret' = "OTA_ALREADY_IN_PROGRESS"
    /\ UNCHANGED << run_bit, td, freed, reused, wk, n_faults >>

\* k_thread_create (and the memset of the thread handle before it) on the one
\* thread object and stack, while an earlier worker has not returned yet: the
\* earlier worker keeps running beside the new one, until it is lost.
WorkersAfterSpawn(u, started) ==
    [w \in Uuids |->
        IF w = u /\ started THEN [NoWorker EXCEPT !.pc = "ack"]
        ELSE IF Live(w) THEN [wk[w] EXCEPT !.stale = TRUE]
        ELSE wk[w]]

\* Run bit clear, both strings duplicated, bit set, thread created.
UpdateAdmitted(u) ==
    /\ UpdateArrives(u)
    /\ ~run_bit
    /\ td' = [ZeroThreadData EXCEPT !.uuid = u, !.download_url = u]
    /\ run_bit' = TRUE
    /\ wk' = WorkersAfterSpawn(u, TRUE)
    /\ hret' = "OK"
    /\ UNCHANGED << freed, reused, hlog, n_faults >>

\* calloc of the uuid copy fails: goto fail, no event, run bit untouched.
UpdateUuidAllocFail(u) ==
    /\ UpdateArrives(u)
    /\ ~run_bit
    /\ CanFault /\ n_faults' = n_faults + 1
    /\ td' = ZeroThreadData
    /\ hret' = "OUT_OF_MEMORY"
    /\ UNCHANGED << run_bit, freed, reused, wk, hlog >>

\* calloc of the url copy fails: goto fail frees the uuid copy, no event.
UpdateUrlAllocFail(u) ==
    /\ UpdateArrives(u)
    /\ ~run_bit
    /\ CanFault /\ n_faults' = n_faults + 1
    /\ td' = [ZeroThreadData EXCEPT !.uuid = u]
    /\ freed' = freed \cup {u}
    /\ hret' = "OUT_OF_MEMORY"
    /\ UNCHANGED << run_bit, reused, wk, hlog >>

\* k_thread_create fails after the bit was set: Failure / InternalError, both
\* copies freed, the run bit is left set.
UpdateThreadCreateFail(u) ==
    /\ UpdateArrives(u)
    /\ ~run_bit
    /\ CanFault /\ n_faults' = n_faults + 1
    /\ td' = [ZeroThreadData EXCEPT !.uuid = u, !.download_url = u]
    /\ run_bit' = TRUE
    /\ wk' = WorkersAfterSpawn(u, FALSE)
    /\ hlog' = Append(hlog, OtaEvent(u, "Failure", 0, "OTA_INTERNAL_ERROR", ""))
    /\ freed' = freed \cup {u}
    /\ hret' = "THREAD_CREATE_ERROR"
    /\ UNCHANGED reused

edgehog_ota_event_update(u) ==
    \/ UpdateRejected(u)
    \/ UpdateAdmitted(u)
    \/ UpdateUuidAllocFail(u)
    \/ UpdateUrlAllocFail(u)
    \/ UpdateThreadCreateFail(u)

(***************************************************************************)
(* edgehog_ota_event_cancel: the Cancel command.  c is the uuid it carries.*)
(***************************************************************************)
CancelFailure(c, error, message) ==
    /\ CancelArrives(c)
    /\ hlog' = Append(hlog, OtaEvent(c, "Failure", 0, error, message))
    /\ hret' = error
    /\ UNCHANGED << run_bit, wk >>

\* A rejection of the Cancel that reports an internal error.
CancelNotRunningInternalError(c) ==
    /\ ~run_bit
    /\ CancelFailure(c, "OTA_INTERNAL_ERROR",
                     "Unable to cancel OTA update request, no OTA update running.")
    /\ UNCHANGED n_faults

CancelNotRunning(c) ==
    /\ ~run_bit
    /\ CancelFailure(c, "OTA_INVALID_REQUEST",
                     "Unable to cancel OTA update request, no OTA update running.")
    /\ UNCHANGED n_faults

CancelSettingsInitFail(c) ==
    /\ run_bit
    /\ CanFault /\ n_faults' = n_faults + 1
    /\ CancelFailure(c, "OTA_INTERNAL_ERROR",
                     "Unable to cancel OTA update request, Edgeghog Settings init error.")

CancelSettingsLoadFail(c) ==
    /\ run_bit
    /\ CanFault /\ n_faults' = n_faults + 1
    /\ CancelFailure(c, "OTA_INTERNAL_ERROR",
                     "Unable to cancel OTA update request, Edgeghog Settings load error.")

CancelNoRequestId(c) ==
    /\ run_bit
    /\ StrLen(OtaSettingsLoaded.uuid) # ASTARTE_UUID_STR_LEN
    /\ CancelFailure(c, "OTA_INTERNAL_ERROR",
                     "Unable to cancel OTA update request, Edgehog Settings error.")
    /\ UNCHANGED n_faults

\* The workers after the run bit was cleared by a Cancel: nothing of theirs is
\* touched; where each of them stood when the bit was cleared is noted.
WorkersAfterCancel ==
    [w \in Uuids |->
        IF wk[w].pc = "download" THEN [wk[w] EXCEPT !.cancelled = TRUE]
        ELSE IF wk[w].pc \in {"pub_deployed", "pub_rebooting", "reboot_wait", "reboot"}
        THEN [wk[w] EXCEPT !.late_cancel = TRUE]
        ELSE wk[w]]

\* A Cancel that stops the running update only when it names that update.
CancelAcceptedIfUuidMatches(c) ==
    /\ CancelArrives(c)
    /\ run_bit
    /\ StrLen(OtaSettingsLoaded.uuid) = ASTARTE_UUID_STR_LEN
    /\ IF c = OtaSettingsLoaded.uuid
       THEN /\ run_bit' = FALSE
            /\ wk' = WorkersAfterCancel
            /\ hret' = "OK"
            /\ UNCHANGED << hlog, n_faults >>
       ELSE /\ hlog' = Append(hlog, OtaEvent(c, "Failure", 0, "OTA_INVALID_REQUEST", ""))
            /\ hret' = "OTA_INVALID_REQUEST"
            /\ UNCHANGED << run_bit, wk, n_faults >>

\* atomic_test_and_clear_bit: whatever is running is cancelled, no event.
CancelAccepted(c) ==
    /\ CancelArrives(c)
    /\ run_bit
    /\ StrLen(OtaSettingsLoaded.uuid) = ASTARTE_UUID_STR_LEN
    /\ run_bit' = FALSE
    /\ wk' = WorkersAfterCancel
    /\ hret' = "OK"
    /\ UNCHANGED << hlog, n_faults >>

edgehog_ota_event_cancel(c) ==
    \/ CancelNotRunning(c)
    \/ CancelSettingsInitFail(c)
    \/ CancelSettingsLoadFail(c)
    \/ CancelNoRequestId(c)
    \/ CancelAccepted(c)

UpdateCommand == \E u \in Uuids : edgehog_ota_event_update(u)

\* A command that edgehog_ota_event does not hand to a handler: c stands for
\* the fields it carries.  Nothing but the returned value (and the event of
\* the last branch) comes of it.
InvalidArrives(c) ==
    /\ phase = "run"
    /\ CommandBudget /\ n_invalid < MaxInvalid
    /\ n_invalid' = n_invalid + 1
    /\ cmd' = c
    /\ hret' = "OTA_INVALID_REQUEST"
    /\ UNCHANGED << phase, rpc, rset, run_bit, td, freed, reused, wk, settings, boot,
                    wlog, rlog, seq, n_updates, n_cancels, n_faults, n_crashes,
                    n_race, scope, app, gai >>

\* A command without "uuid" or "operation" answered with a Failure event.
EventMissingFieldReported(c) ==
    /\ InvalidArrives(c)
    /\ c.uuid = NoUuid \/ c.operation = ""
    /\ hlog' = Append(hlog, OtaEvent(c.uuid, "Failure", 0, "OTA_INVALID_REQUEST", ""))

\* No "uuid" or no "operation" entry: req_uuid or ota_operation stays NULL.
EventMissingField(c) ==
    /\ InvalidArrives(c)
    /\ c.uuid = NoUuid \/ c.operation = ""
    /\ UNCHANGED hlog

\* "Update" without a "url" entry.
EventUpdateWithoutUrl(c) ==
    /\ InvalidArrives(c)
    /\ c.uuid # NoUuid /\ c.operation = "Update" /\ c.url = NoUuid
    /\ UNCHANGED hlog

\* An operation that is neither "Update" nor "Cancel": Failure / InvalidRequest.
EventUnknownOperation(c) ==
    /\ InvalidArrives(c)
    /\ c.uuid # NoUuid /\ c.operation \notin {"", "Update", "Cancel"}
    /\ hlog' = Append(hlog, OtaEvent(c.uuid, "Failure", 0, "OTA_INVALID_REQUEST", ""))

InvalidCommand ==
    \E c \in Commands :
        \/ EventMissingField(c)
        \/ EventUpdateWithoutUrl(c)
        \/ EventUnknownOperation(c)

CancelCommand == \E c \in Uuids : edgehog_ota_event_cancel(c)

(***************************************************************************)
(* The OTA worker thread: ota_thread_entry_point, perform_ota,             *)
(* perform_ota_attempt and the download sink http_download_payload_cbk.    *)
(* One action per blocking call; w names the thread.                       *)
(***************************************************************************)
\* The string read through a request pointer: the NULL pointer reads as the
\* empty string, a freed allocation as its old content until the allocator
\* hands the memory out again, as anything else afterwards.
Deref(p) ==
    IF p = NoUuid THEN {NoUuid}
    ELSE IF p \in reused THEN {Garbage}
    ELSE {p}

\* Pointers to request strings still held by the program.
HeldPointers == {td.uuid, td.download_url} \cup {wk[w].req_uuid : w \in LiveWorkers}

\* Another allocation (HTTP buffer, DNS node, telemetry message) takes over the
\* memory of a freed request string that is still pointed to.
HeapReuse ==
    /\ phase = "run"
    /\ \E p \in (freed \cap HeldPointers) \ reused : reused' = reused \cup {p}
    /\ RaceStep
    /\ UNCHANGED << phase, rpc, rset, run_bit, td, freed, wk, settings, boot, wlog, seq,
                    hlog, rlog, hret, n_updates, n_cancels, n_faults, n_crashes,
                    scope, app, gai, cmd, n_invalid >>

\* A worker running on a thread object and stack that are no longer its own
\* may stop at any point.
StaleLost ==
    /\ \E w \in LiveWorkers :
          /\ wk[w].stale
          /\ wk' = [wk EXCEPT ![w] = [NoWorker EXCEPT !.pc = "clobbered"]]
          /\ wlog' = [wlog EXCEPT ![w] = << >>]
    /\ UNCHANGED << seq, phase, rpc, rset, run_bit, td, freed, reused, settings, boot,
                    hlog, rlog, hret, n_updates, n_cancels, n_faults, n_crashes,
                    n_race, scope, app, gai, cmd, n_invalid >>

\* pub_ota_event called by thread w with the uuid string found behind ptr.
Pub(w, ptr, status, status_progress, error) ==
    \E s \in Deref(ptr) :
        /\ wlog' = [wlog EXCEPT ![w] = Append(@, OtaEvent(s, status, status_progress, error, ""))]
        /\ seq' = SeqAfter(s, status)

\* What no worker step changes.
WorkerFrame ==
    /\ RaceStep
    /\ UNCHANGED << phase, rpc, rset, hlog, rlog, hret, n_updates, n_cancels,
                    n_crashes, scope, app, gai, cmd, n_invalid >>

\* const char *req_uuid = ota_thread_data->ota_request.uuid; then Acknowledged.
WAck(w) ==
    /\ wk[w].pc = "ack"
    /\ Pub(w, td.uuid, "Acknowledged", 0, "OK")
    /\ wk' = [wk EXCEPT ![w].req_uuid = td.uuid, ![w].pc = "init"]
    /\ WorkerFrame
    /\ UNCHANGED << run_bit, td, freed, reused, settings, boot, n_faults >>

\* edgehog_settings_init; on failure Failure / SETTINGS_INIT_FAIL and selfdestruct.
WSettingsInit(w) ==
    /\ wk[w].pc = "init"
    /\ \/ /\ wk' = [wk EXCEPT ![w].pc = "save_in_progress"]
          /\ UNCHANGED << wlog, seq, n_faults >>
       \/ /\ CanFault /\ n_faults' = n_faults + 1
          /\ Pub(w, wk[w].req_uuid, "Failure", 0, "SETTINGS_INIT_FAIL")
          /\ wk' = [wk EXCEPT ![w].pc = "clear_bit"]
    /\ WorkerFrame
    /\ UNCHANGED << run_bit, td, freed, reused, settings, boot >>

\* A save of ota/state whose result the caller ignores.
SaveStateIgnoringResult(s) ==
    \/ settings' = SettingsSaved("state", s) /\ UNCHANGED n_faults
    \/ CanFault /\ n_faults' = n_faults + 1 /\ UNCHANGED settings

\* edgehog_settings_save(state = IN_PROGRESS), result ignored.
WSaveInProgress(w) ==
    /\ wk[w].pc = "save_in_progress"
    /\ SaveStateIgnoringResult(OTA_STATE_IN_PROGRESS)
    /\ wk' = [wk EXCEPT ![w].pc = "erase"]
    /\ WorkerFrame
    /\ UNCHANGED << run_bit, td, freed, reused, boot, wlog, seq >>

\* perform_ota: boot_erase_img_bank, once, before the attempt loop.
WErase(w) ==
    /\ wk[w].pc = "erase"
    /\ \/ /\ wk' = [wk EXCEPT ![w].pc = "flash_init"]
          /\ UNCHANGED n_faults
       \/ /\ CanFault /\ n_faults' = n_faults + 1
          /\ wk' = [wk EXCEPT ![w].pc = "result",
                              ![w].result = "OTA_ERASE_SECOND_SLOT_ERROR"]
    /\ WorkerFrame
    /\ UNCHANGED << run_bit, td, freed, reused, settings, boot, wlog, seq >>

\* perform_ota: flash_img_init, once, before the attempt loop.
WFlashInit(w) ==
    /\ wk[w].pc = "flash_init"
    /\ \/ /\ td' = [td EXCEPT !.bytes_written = 0]
          /\ wk' = [wk EXCEPT ![w].pc = "save_req_id"]
          /\ UNCHANGED n_faults
       \/ /\ CanFault /\ n_faults' = n_faults + 1
          /\ wk' = [wk EXCEPT ![w].pc = "result",
                              ![w].result = "OTA_INIT_FLASH_ERROR"]
          /\ UNCHANGED td
    /\ WorkerFrame
    /\ UNCHANGED << run_bit, freed, reused, settings, boot, wlog, seq >>

\* perform_ota: edgehog_settings_save(req_id = the request uuid); its failure
\* ends perform_ota with the settings error.
WSaveReqId(w) ==
    /\ wk[w].pc = "save_req_id"
    /\ \/ /\ \E s \in Deref(td.uuid) : settings' = SettingsSaved("req_id", s)
          /\ wk' = [wk EXCEPT ![w].pc = "pub_downloading", ![w].attempts = 0]
          /\ UNCHANGED n_faults
       \/ /\ CanFault /\ n_faults' = n_faults + 1
          /\ wk' = [wk EXCEPT ![w].pc = "result",
                              ![w].result = "SETTINGS_SAVE_FAIL"]
          /\ UNCHANGED settings
    /\ WorkerFrame
    /\ UNCHANGED << run_bit, td, freed, reused, boot, wlog, seq >>

\* The top of the attempt loop without its Downloading event.
WPubDownloadingSilent(w) ==
    /\ wk[w].pc = "pub_downloading"
    /\ wk' = [wk EXCEPT ![w].pc = "download", ![w].chunk = 0]
    /\ WorkerFrame
    /\ UNCHANGED << run_bit, td, freed, reused, settings, boot, n_faults, wlog, seq >>

\* perform_ota, top of the attempt loop: Downloading with progress 0.
WPubDownloading(w) ==
    /\ wk[w].pc = "pub_downloading"
    /\ Pub(w, td.uuid, "Downloading", 0, "OK")
    /\ wk' = [wk EXCEPT ![w].pc = "download", ![w].chunk = 0]
    /\ WorkerFrame
    /\ UNCHANGED << run_bit, td, freed, reused, settings, boot, n_faults >>

\* download_chunk->download_size, the length of the whole body, and the sizes
\* of the chunks the downloader hands to the sink.
ImageSize == IF scope = "download" THEN ImageBytes ELSE NumChunks
ChunkSizes == IF scope = "download" THEN 1..ImageBytes ELSE {1}

\* The percentage the sink reports: floor(100 * written / total), rounded
\* down to a multiple of OTA_PROGRESS_PERC_ROUNDING_STEP.
ReadPerc(download_size, total) == (OTA_PROGRESS_PERC * download_size) \div total
ReadPercRounded(download_size, total) ==
    ReadPerc(download_size, total)
        - (ReadPerc(download_size, total) % OTA_PROGRESS_PERC_ROUNDING_STEP)

\* http_download_payload_cbk with the run bit clear: abort the socket, write
\* nothing, return OK.  The downloader then returns to perform_ota_attempt
\* (with OK or with an error: the attempt looks at the run bit first).
SinkAbort(w) ==
    /\ wk[w].pc = "download" /\ wk[w].chunk < ImageSize
    /\ ~run_bit
    /\ \E r \in {"OK", "NETWORK_ERROR"} :
          wk' = [wk EXCEPT ![w].pc = "attempt_check", ![w].dl_res = r]
    /\ WorkerFrame
    /\ UNCHANGED << run_bit, td, freed, reused, settings, boot, wlog, seq, n_faults >>

\* A sink that reports the percentage after every chunk, changed or not.
SinkWriteReportsEveryChunk(w) ==
    /\ wk[w].pc = "download" /\ wk[w].chunk < ImageSize
    /\ run_bit
    /\ \E chunk_size \in ChunkSizes :
          /\ wk[w].chunk + chunk_size <= ImageSize
          /\ LET written == td.bytes_written + chunk_size
                 perc == ReadPercRounded(written, ImageSize)
             IN /\ td' = [td EXCEPT !.bytes_written = written,
                                    !.image_size = ImageSize,
                                    !.download_size = written,
                                    !.last_perc_sent = perc]
                /\ Pub(w, td.uuid, "Downloading", perc, "OK")
          /\ wk' = [wk EXCEPT ![w].chunk = @ + chunk_size]
    /\ WorkerFrame
    /\ UNCHANGED << run_bit, freed, reused, settings, boot, n_faults >>

\* http_download_payload_cbk with the run bit set: flash_img_buffered_write,
\* then the sizes, the percentage and (when it changed) a Downloading event.
SinkWrite(w) ==
    /\ wk[w].pc = "download" /\ wk[w].chunk < ImageSize
    /\ run_bit
    /\ \E chunk_size \in ChunkSizes :
          /\ wk[w].chunk + chunk_size <= ImageSize
          /\ LET written == td.bytes_written + chunk_size
                 perc == ReadPercRounded(written, ImageSize)
             IN /\ td' = [td EXCEPT !.bytes_written = written,
                                    !.image_size = ImageSize,
                                    !.download_size = written,
                                    !.last_perc_sent = perc]
                /\ IF perc # td.last_perc_sent
                   THEN Pub(w, td.uuid, "Downloading", perc, "OK")
                   ELSE UNCHANGED << wlog, seq >>
          /\ wk' = [wk EXCEPT ![w].chunk = @ + chunk_size]
    /\ WorkerFrame
    /\ UNCHANGED << run_bit, freed, reused, settings, boot, n_faults >>

\* flash_img_buffered_write fails: abort the socket, OTA_WRITE_FLASH_ERROR.
SinkWriteFail(w) ==
    /\ wk[w].pc = "download" /\ wk[w].chunk < ImageSize
    /\ run_bit
    /\ CanFault /\ n_faults' = n_faults + 1
    /\ wk' = [wk EXCEPT ![w].pc = "attempt_check",
                        ![w].dl_res = "OTA_WRITE_FLASH_ERROR"]
    /\ WorkerFrame
    /\ UNCHANGED << run_bit, td, freed, reused, settings, boot, wlog, seq >>

\* edgehog_http_download returns OK after the last chunk was delivered.
DownloadComplete(w) ==
    /\ wk[w].pc = "download" /\ wk[w].chunk = ImageSize
    /\ wk' = [wk EXCEPT ![w].pc = "attempt_check", ![w].dl_res = "OK"]
    /\ WorkerFrame
    /\ UNCHANGED << run_bit, td, freed, reused, settings, boot, wlog, seq, n_faults >>

\* edgehog_http_download fails with NETWORK_ERROR before any chunk was
\* delivered: connection, DNS or TLS failure, timeout.
DownloadError(w) ==
    /\ scope \in {"faults", "network"}
    /\ wk[w].pc = "download" /\ wk[w].chunk = 0
    /\ wk' = [wk EXCEPT ![w].pc = "attempt_check", ![w].dl_res = "NETWORK_ERROR"]
    /\ WorkerFrame
    /\ UNCHANGED << run_bit, td, freed, reused, settings, boot, wlog, seq, n_faults >>

\* edgehog_http_download returns OK without having called the sink: the body
\* of the response is empty.
DownloadEmpty(w) ==
    /\ scope = "faults"
    /\ wk[w].pc = "download" /\ wk[w].chunk = 0
    /\ wk' = [wk EXCEPT ![w].pc = "attempt_check", ![w].dl_res = "OK"]
    /\ WorkerFrame
    /\ UNCHANGED << run_bit, td, freed, reused, settings, boot, wlog, seq, n_faults >>

\* edgehog_http_download fails with NETWORK_ERROR after some chunks were
\* delivered: the transfer breaks off.
DownloadBroken(w) ==
    /\ wk[w].pc = "download" /\ 0 < wk[w].chunk /\ wk[w].chunk < ImageSize
    /\ CanFault /\ n_faults' = n_faults + 1
    /\ wk' = [wk EXCEPT ![w].pc = "attempt_check", ![w].dl_res = "NETWORK_ERROR"]
    /\ WorkerFrame
    /\ UNCHANGED << run_bit, td, freed, reused, settings, boot, wlog, seq >>

\* An attempt that looks at the downloader's result before the run bit.
AttemptResultDownloaderFirst(w) ==
    IF wk[w].dl_res # "OK" THEN wk[w].dl_res
    ELSE IF ~run_bit THEN "OTA_CANCELED"
    ELSE IF td.bytes_written <= 0 \/ td.bytes_written # td.image_size
         THEN "NETWORK_ERROR"
    ELSE "OK"

\* perform_ota_attempt after edgehog_http_download returned.
AttemptResult(w) ==
    IF ~run_bit THEN "OTA_CANCELED"
    ELSE IF wk[w].dl_res # "OK" THEN wk[w].dl_res
    ELSE IF td.bytes_written <= 0 \/ td.bytes_written # td.image_size
         THEN "NETWORK_ERROR"
    ELSE "OK"

\* perform_ota_attempt's tail and perform_ota's test of its result: OK and
\* OTA_CANCELED leave the loop, anything else goes to the back-off sleep.
WAttemptCheck(w) ==
    /\ wk[w].pc = "attempt_check"
    /\ LET r == AttemptResult(w) IN
         /\ wk' = [wk EXCEPT ![w].result = r, ![w].chunk = 0, ![w].dl_res = "OK",
                             ![w].pc = IF r \in {"OK", "OTA_CANCELED"}
                                       THEN "result" ELSE "sleep"]
         /\ td' = IF run_bit /\ wk[w].dl_res = "OK"
                  THEN [td EXCEPT !.download_size = td.bytes_written]
                  ELSE td
    /\ WorkerFrame
    /\ UNCHANGED << run_bit, freed, reused, settings, boot, wlog, seq, n_faults >>

\* A back-off that counts the attempts from one.
WSleepOneBased(w) ==
    /\ wk[w].pc = "sleep"
    /\ wk' = [wk EXCEPT ![w].pc = "pub_error",
                        ![w].slept = @ + (wk[w].attempts + 1) * OTA_ATTEMPS_DELAY_MS]
    /\ WorkerFrame
    /\ UNCHANGED << run_bit, td, freed, reused, settings, boot, wlog, seq, n_faults >>

\* k_msleep(update_attempts * OTA_ATTEMPS_DELAY_MS): update_attempts is a
\* uint8_t below MAX_OTA_RETRY, the product is an int of at most 8000.
WSleep(w) ==
    /\ wk[w].pc = "sleep"
    /\ wk' = [wk EXCEPT ![w].pc = "pub_error",
                        ![w].slept = @ + wk[w].attempts * OTA_ATTEMPS_DELAY_MS]
    /\ WorkerFrame
    /\ UNCHANGED << run_bit, td, freed, reused, settings, boot, wlog, seq, n_faults >>

\* A loop test that lets a sixth attempt through.
WPubErrorOneMoreAttempt(w) ==
    /\ wk[w].pc = "pub_error"
    /\ Pub(w, td.uuid, "Error", 0, wk[w].result)
    /\ wk' = [wk EXCEPT ![w].attempts = @ + 1,
                        ![w].pc = IF wk[w].attempts + 1 <= MAX_OTA_RETRY
                                  THEN "pub_downloading" ELSE "result"]
    /\ WorkerFrame
    /\ UNCHANGED << run_bit, td, freed, reused, settings, boot, n_faults >>

\* Error event with the attempt's result, then update_attempts++ and the loop test.
WPubError(w) ==
    /\ wk[w].pc = "pub_error"
    /\ Pub(w, td.uuid, "Error", 0, wk[w].result)
    /\ wk' = [wk EXCEPT ![w].attempts = @ + 1,
                        ![w].pc = IF wk[w].attempts + 1 < MAX_OTA_RETRY
                                  THEN "pub_downloading" ELSE "result"]
    /\ WorkerFrame
    /\ UNCHANGED << run_bit, td, freed, reused, settings, boot, n_faults >>

\* ota_thread_entry_point after perform_ota returned: Deploying on OK,
\* otherwise Failure with perform_ota's result.
WResult(w) ==
    /\ wk[w].pc = "result"
    /\ IF wk[w].result = "OK"
       THEN /\ Pub(w, wk[w].req_uuid, "Deploying", 0, "OK")
            /\ wk' = [wk EXCEPT ![w].pc = "save_reboot"]
       ELSE /\ Pub(w, wk[w].req_uuid, "Failure", 0, wk[w].result)
            /\ wk' = [wk EXCEPT ![w].pc = "save_idle"]
    /\ WorkerFrame
    /\ UNCHANGED << run_bit, td, freed, reused, settings, boot, n_faults >>

\* edgehog_settings_save(state = REBOOT), result ignored.
WSaveReboot(w) ==
    /\ wk[w].pc = "save_reboot"
    /\ SaveStateIgnoringResult(OTA_STATE_REBOOT)
    /\ wk' = [wk EXCEPT ![w].pc = "read_header"]
    /\ WorkerFrame
    /\ UNCHANGED << run_bit, td, freed, reused, boot, wlog, seq >>

\* boot_read_bank_header of the secondary slot.
WReadHeader(w) ==
    /\ wk[w].pc = "read_header"
    /\ \/ /\ wk' = [wk EXCEPT ![w].pc = "request_upgrade"]
          /\ UNCHANGED << wlog, seq, n_faults >>
       \/ /\ CanFault /\ n_faults' = n_faults + 1
          /\ Pub(w, wk[w].req_uuid, "Failure", 0, "OTA_INTERNAL_ERROR")
          /\ wk' = [wk EXCEPT ![w].pc = "clear_bit", ![w].deploy_failed = TRUE]
    /\ WorkerFrame
    /\ UNCHANGED << run_bit, td, freed, reused, settings, boot >>

\* boot_request_upgrade(BOOT_UPGRADE_TEST): marks the secondary image pending.
WRequestUpgrade(w) ==
    /\ wk[w].pc = "request_upgrade"
    /\ \/ /\ boot' = [boot EXCEPT !.pending = TRUE]
          /\ wk' = [wk EXCEPT ![w].pc = "pub_deployed"]
          /\ UNCHANGED << wlog, seq, n_faults >>
       \/ /\ CanFault /\ n_faults' = n_faults + 1
          /\ Pub(w, wk[w].req_uuid, "Failure", 0, "OTA_INTERNAL_ERROR")
          /\ wk' = [wk EXCEPT ![w].pc = "clear_bit", ![w].deploy_failed = TRUE]
          /\ UNCHANGED boot
    /\ WorkerFrame
    /\ UNCHANGED << run_bit, td, freed, reused, settings >>

WPubDeployed(w) ==
    /\ wk[w].pc = "pub_deployed"
    /\ Pub(w, wk[w].req_uuid, "Deployed", 0, "OK")
    /\ wk' = [wk EXCEPT ![w].pc = "pub_rebooting"]
    /\ WorkerFrame
    /\ UNCHANGED << run_bit, td, freed, reused, settings, boot, n_faults >>

WPubRebooting(w) ==
    /\ wk[w].pc = "pub_rebooting"
    /\ Pub(w, wk[w].req_uuid, "Rebooting", 0, "OK")
    /\ wk' = [wk EXCEPT ![w].pc = "reboot_wait"]
    /\ WorkerFrame
    /\ UNCHANGED << run_bit, td, freed, reused, settings, boot, n_faults >>

\* k_sleep(K_SECONDS(5)).
WRebootWait(w) ==
    /\ wk[w].pc = "reboot_wait"
    /\ wk' = [wk EXCEPT ![w].pc = "reboot"]
    /\ WorkerFrame
    /\ UNCHANGED << run_bit, td, freed, reused, settings, boot, wlog, seq, n_faults >>

\* sys_reboot(SYS_REBOOT_WARM): does not return.
WReboot(w) ==
    /\ wk[w].pc = "reboot"
    /\ Rebooted
    /\ UNCHANGED n_crashes

\* A failure branch that clears the run bit together with its save of IDLE.
WSaveIdleClearsBit(w) ==
    /\ wk[w].pc = "save_idle"
    /\ SaveStateIgnoringResult(OTA_STATE_IDLE)
    /\ run_bit' = FALSE
    /\ wk' = [wk EXCEPT ![w].pc = "clear_bit"]
    /\ WorkerFrame
    /\ UNCHANGED << td, freed, reused, boot, wlog, seq >>

\* The failure branch: edgehog_settings_save(state = IDLE), result ignored.
WSaveIdle(w) ==
    /\ wk[w].pc = "save_idle"
    /\ SaveStateIgnoringResult(OTA_STATE_IDLE)
    /\ wk' = [wk EXCEPT ![w].pc = "clear_bit"]
    /\ WorkerFrame
    /\ UNCHANGED << run_bit, td, freed, reused, boot, wlog, seq >>

\* selfdestruct: atomic_clear_bit of the run bit.  The thread publishes no
\* event from here on, its record of published events is closed.
WClearBit(w) ==
    /\ wk[w].pc = "clear_bit"
    /\ run_bit' = FALSE
    /\ wk' = [wk EXCEPT ![w].pc = "free"]
    /\ wlog' = [wlog EXCEPT ![w] = << >>]
    /\ WorkerFrame
    /\ UNCHANGED << seq, td, freed, reused, settings, boot, n_faults >>

\* selfdestruct: free of whatever the request pointers hold now.
WFree(w) ==
    /\ wk[w].pc = "free"
    /\ freed' = freed \cup ({td.uuid, td.download_url} \ {NoUuid})
    /\ wk' = [wk EXCEPT ![w].pc = "delete_req_id"]
    /\ WorkerFrame
    /\ UNCHANGED << run_bit, td, reused, settings, boot, wlog, seq, n_faults >>

\* selfdestruct: edgehog_settings_delete(req_id), result ignored.
WDeleteReqId(w) ==
    /\ wk[w].pc = "delete_req_id"
    /\ \/ settings' = SettingsDeleted("req_id") /\ UNCHANGED n_faults
       \/ CanFault /\ n_faults' = n_faults + 1 /\ UNCHANGED settings
    /\ wk' = [wk EXCEPT ![w].pc = "final_save_idle"]
    /\ WorkerFrame
    /\ UNCHANGED << run_bit, td, freed, reused, boot, wlog, seq >>

\* selfdestruct: edgehog_settings_save(state = IDLE), result ignored; the
\* thread function returns.
WFinalSaveIdle(w) ==
    /\ wk[w].pc = "final_save_idle"
    /\ SaveStateIgnoringResult(OTA_STATE_IDLE)
    /\ wk' = [wk EXCEPT ![w] = [NoWorker EXCEPT !.pc = "done"]]
    /\ WorkerFrame
    /\ UNCHANGED << run_bit, td, freed, reused, boot, wlog, seq >>

ota_thread_entry_point(w) ==
    \/ WAck(w) \/ WSettingsInit(w) \/ WSaveInProgress(w)
    \/ WResult(w) \/ WSaveReboot(w) \/ WReadHeader(w) \/ WRequestUpgrade(w)
    \/ WPubDeployed(w) \/ WPubRebooting(w) \/ WRebootWait(w) \/ WReboot(w)
    \/ WSaveIdle(w) \/ WClearBit(w) \/ WFree(w) \/ WDeleteReqId(w)
    \/ WFinalSaveIdle(w)

perform_ota(w) ==
    \/ WErase(w) \/ WFlashInit(w) \/ WSaveReqId(w)
    \/ WPubDownloading(w) \/ WSleep(w) \/ WPubError(w)

perform_ota_attempt(w) ==
    \/ DownloadComplete(w) \/ WAttemptCheck(w)

http_download_payload_cbk(w) ==
    \/ SinkAbort(w) \/ SinkWrite(w)

\* A worker exists only between edgehog_ota_init's return and the next reset.
Worker ==
    \E w \in Uuids :
        \/ ota_thread_entry_point(w) \/ perform_ota(w)
        \/ perform_ota_attempt(w) \/ http_download_payload_cbk(w)

\* The download of a worker fails (the network, or the flash write in the
\* sink) or delivers nothing.
DownloadFailure ==
    \E w \in Uuids :
        \/ DownloadError(w) \/ DownloadBroken(w) \/ SinkWriteFail(w)
        \/ DownloadEmpty(w)

Next ==
    \/ edgehog_ota_init
    \/ UpdateCommand
    \/ CancelCommand
    \/ Worker
    \/ DownloadFailure
    \/ HeapReuse
    \/ StaleLost
    \/ Crash

Spec == Init /\ [][Next]_vars

\* Every step worker w can take, the returns of its download included.
WorkerOf(w) ==
    \/ ota_thread_entry_point(w) \/ perform_ota(w)
    \/ perform_ota_attempt(w) \/ http_download_payload_cbk(w)
    \/ DownloadError(w) \/ DownloadBroken(w) \/ SinkWriteFail(w)
    \/ DownloadEmpty(w)

\* The scheduler runs every ready thread again and again, and every call of
\* edgehog_http_download returns: a worker that can take a step takes one.
WorkersScheduled == \A w \in Uuids : WF_vars(WorkerOf(w))

SpecFair == Init /\ [][Next]_vars /\ WorkersScheduled

\* The steps of a run in which no call and no download fails.
NextRace ==
    \/ InitLoadCheck \/ InitConfirm \/ InitSuccess \/ InitDelete \/ InitSave
    \/ \E u \in Uuids : UpdateRejected(u) \/ UpdateAdmitted(u)
    \/ \E c \in Uuids : CancelNotRunning(c) \/ CancelNoRequestId(c) \/ CancelAccepted(c)
    \/ InvalidCommand
    \/ Worker
    \/ HeapReuse
    \/ StaleLost

SpecRace == InitRace /\ [][NextRace]_vars

\* The steps of a run in which no call fails, connections may fail and only
\* well-formed commands arrive.
NextNetwork ==
    \/ InitLoadCheck \/ InitConfirm \/ InitSuccess \/ InitDelete \/ InitSave
    \/ \E u \in Uuids : UpdateRejected(u) \/ UpdateAdmitted(u)
    \/ \E c \in Uuids : CancelNotRunning(c) \/ CancelNoRequestId(c) \/ CancelAccepted(c)
    \/ Worker
    \/ \E w \in Uuids : DownloadError(w)
    \/ HeapReuse
    \/ StaleLost

SpecNetwork == InitNetwork /\ [][NextNetwork]_vars

\* The steps of a run with one Update whose first attempt delivers the image.
NextDownload ==
    \/ InitLoadCheck \/ InitConfirm \/ InitSuccess \/ InitDelete \/ InitSave
    \/ \E u \in Uuids : UpdateAdmitted(u)
    \/ \E w \in Uuids :
          \/ WAck(w) \/ WSettingsInit(w) \/ WSaveInProgress(w)
          \/ WErase(w) \/ WFlashInit(w) \/ WSaveReqId(w) \/ WPubDownloading(w)
          \/ SinkWrite(w) \/ DownloadComplete(w) \/ WAttemptCheck(w)
          \/ WResult(w) \/ WSaveReboot(w) \/ WReadHeader(w) \/ WRequestUpgrade(w)
          \/ WPubDeployed(w) \/ WPubRebooting(w) \/ WRebootWait(w) \/ WReboot(w)

SpecDownload == InitDownload /\ [][NextDownload]_vars

\* The steps of a run with one Update whose download delivers the image, calls
\* that may fail, and a reset of the device once it is idle again.
NextReboots ==
    \/ edgehog_ota_init
    \/ \E u \in Uuids : UpdateAdmitted(u)
    \/ \E w \in Uuids :
          \/ WAck(w) \/ WSettingsInit(w) \/ WSaveInProgress(w)
          \/ WErase(w) \/ WFlashInit(w) \/ WSaveReqId(w) \/ WPubDownloading(w)
          \/ SinkWrite(w) \/ DownloadComplete(w) \/ WAttemptCheck(w)
          \/ WResult(w) \/ WSaveReboot(w) \/ WReadHeader(w) \/ WRequestUpgrade(w)
          \/ WPubDeployed(w) \/ WPubRebooting(w) \/ WRebootWait(w) \/ WReboot(w)
          \/ WSaveIdle(w) \/ WClearBit(w) \/ WFree(w) \/ WDeleteReqId(w)
          \/ WFinalSaveIdle(w)
    \/ Crash

SpecReboots == InitReboots /\ [][NextReboots]_vars

\* pub_ota_event called on its own, with the uuid u, the event and the error
\* as arguments; hret keeps the error that was passed.
pub_ota_event(u, event, error) ==
    /\ scope = "events"
    /\ Len(hlog) < MaxEvents
    /\ hlog' = Append(hlog, OtaEvent(u, EventStatus(event), 0, error, ""))
    /\ hret' = error
    /\ UNCHANGED << phase, rpc, rset, run_bit, td, freed, reused, wk, settings, boot,
                    wlog, rlog, seq, n_updates, n_cancels, n_faults, n_crashes,
                    n_race, scope, app, gai, cmd, n_invalid >>

\* The steps of a run that only builds events.
NextEvents ==
    \E u \in Uuids, event \in OtaEvents, error \in Results :
        pub_ota_event(u, event, error)

SpecEvents == InitEvents /\ [][NextEvents]_vars

(***************************************************************************)
(* The sample application (samples/edgehog_app/src/main.c): the main       *)
(* thread, the Astarte thread, the Edgehog thread and the connection       *)
(* callback, synchronised through the bits of device_threads_flags.  A     *)
(* wait loop (test the bit, sleep 100 ms) is an action that is enabled     *)
(* once the bit is set.  The Astarte SDK and the Edgehog library calls may *)
(* succeed or fail.                                                        *)
(***************************************************************************)
AppFrame ==
    /\ scope = "startup"
    /\ UNCHANGED << phase, rpc, rset, run_bit, td, freed, reused, wk, settings, boot,
                    wlog, hlog, rlog, hret, seq, n_updates, n_cancels, n_faults,
                    n_crashes, n_race, scope, gai, cmd, n_invalid >>

atomic_test_bit(bit) == bit \in app.device_threads_flags
atomic_set_bit(bit) == app.device_threads_flags \cup {bit}

\* main: the operational time is over; signal the termination.
MainTerminate ==
    /\ app.main = "run"
    /\ app' = [app EXCEPT !.main = "join",
                          !.device_threads_flags =
                              atomic_set_bit(DEVICE_THREADS_FLAGS_TERMINATION)]
    /\ AppFrame

\* main: k_thread_join of the Astarte thread.
MainJoin ==
    /\ app.main = "join" /\ app.astarte = "done"
    /\ app' = [app EXCEPT !.main = "done"]
    /\ AppFrame

\* astarte_device_new: on failure the thread returns.
AstarteNew ==
    /\ app.astarte = "new"
    /\ \/ app' = [app EXCEPT !.astarte_device = "created", !.astarte = "signal_create"]
       \/ app' = [app EXCEPT !.astarte = "done"]
    /\ AppFrame

\* Signal the Edgehog thread to create the device.
AstarteSignalCreate ==
    /\ app.astarte = "signal_create"
    /\ app' = [app EXCEPT !.astarte = "wait_connect",
                          !.device_threads_flags =
                              atomic_set_bit(DEVICE_THREADS_FLAGS_CREATE_EDGEHOG)]
    /\ AppFrame

AstarteWaitConnect ==
    /\ app.astarte = "wait_connect"
    /\ atomic_test_bit(DEVICE_THREADS_FLAGS_CONNECT_ASTARTE)
    /\ app' = [app EXCEPT !.astarte = "connect"]
    /\ AppFrame

\* astarte_device_connect: on failure the thread returns.
AstarteConnect ==
    /\ app.astarte = "connect"
    /\ \/ app' = [app EXCEPT !.astarte_device = "connecting", !.astarte = "poll"]
       \/ app' = [app EXCEPT !.astarte = "done"]
    /\ AppFrame

\* The poll loop: left when the termination bit is set, or when
\* astarte_device_poll fails (the thread returns).
AstartePoll ==
    /\ app.astarte = "poll"
    /\ IF atomic_test_bit(DEVICE_THREADS_FLAGS_TERMINATION)
       THEN app' = [app EXCEPT !.astarte = "disconnect"]
       ELSE app' = [app EXCEPT !.astarte = "done"]
    /\ AppFrame

AstarteDisconnect ==
    /\ app.astarte = "disconnect"
    /\ \/ app' = [app EXCEPT !.astarte_device = "disconnected", !.astarte = "destroy"]
       \/ app' = [app EXCEPT !.astarte = "done"]
    /\ AppFrame

AstarteDestroy ==
    /\ app.astarte = "destroy"
    /\ \/ app' = [app EXCEPT !.astarte_device = "destroyed", !.astarte = "done"]
       \/ app' = [app EXCEPT !.astarte = "done"]
    /\ AppFrame

astarte_device_thread_entry_point ==
    \/ AstarteNew \/ AstarteSignalCreate \/ AstarteWaitConnect \/ AstarteConnect
    \/ AstartePoll \/ AstarteDisconnect \/ AstarteDestroy

\* The Astarte SDK delivers the connection event once astarte_device_connect
\* was called, at the first connection and at every reconnection.
astarte_device_connection_callback ==
    /\ app.astarte_device = "connecting"
    /\ app.connection_cbk < MaxConnections
    /\ app' = [app EXCEPT !.connection_cbk = @ + 1,
                          !.device_threads_flags =
                              atomic_set_bit(DEVICE_THREADS_FLAGS_START_EDGEHOG)]
    /\ AppFrame

EdgehogWaitCreate ==
    /\ app.edgehog = "wait_create"
    /\ atomic_test_bit(DEVICE_THREADS_FLAGS_CREATE_EDGEHOG)
    /\ app' = [app EXCEPT !.edgehog = "new"]
    /\ AppFrame

\* edgehog_device_new with the astarte_device handle: on failure the thread returns.
EdgehogNew ==
    /\ app.edgehog = "new"
    /\ \/ app' = [app EXCEPT !.edgehog_device = "created", !.edgehog = "signal_connect"]
       \/ app' = [app EXCEPT !.edgehog = "done"]
    /\ AppFrame

\* Signal the Astarte thread to connect the device.
EdgehogSignalConnect ==
    /\ app.edgehog = "signal_connect"
    /\ app' = [app EXCEPT !.edgehog = "wait_start",
                          !.device_threads_flags =
                              atomic_set_bit(DEVICE_THREADS_FLAGS_CONNECT_ASTARTE)]
    /\ AppFrame

\* A wait for the start that looks at the bit of the connect request.
EdgehogWaitStartOnConnectBit ==
    /\ app.edgehog = "wait_start"
    /\ atomic_test_bit(DEVICE_THREADS_FLAGS_CONNECT_ASTARTE)
    /\ app' = [app EXCEPT !.edgehog = "start"]
    /\ AppFrame

EdgehogWaitStart ==
    /\ app.edgehog = "wait_start"
    /\ atomic_test_bit(DEVICE_THREADS_FLAGS_START_EDGEHOG)
    /\ app' = [app EXCEPT !.edgehog = "start"]
    /\ AppFrame

\* edgehog_device_start: on failure the thread returns.
EdgehogStart ==
    /\ app.edgehog = "start"
    /\ \/ app' = [app EXCEPT !.edgehog_device = "started", !.edgehog = "run"]
       \/ app' = [app EXCEPT !.edgehog = "done"]
    /\ AppFrame

\* The run loop, left when the termination bit is set.
EdgehogRun ==
    /\ app.edgehog = "run"
    /\ atomic_test_bit(DEVICE_THREADS_FLAGS_TERMINATION)
    /\ app' = [app EXCEPT !.edgehog = "stop"]
    /\ AppFrame

\* edgehog_device_stop, then edgehog_device_destroy.
EdgehogStop ==
    /\ app.edgehog = "stop"
    /\ \/ app' = [app EXCEPT !.edgehog_device = "stopped", !.edgehog = "destroy"]
       \/ app' = [app EXCEPT !.edgehog = "done"]
    /\ AppFrame

EdgehogDestroy ==
    /\ app.edgehog = "destroy"
    /\ app' = [app EXCEPT !.edgehog_device = "destroyed", !.edgehog = "done"]
    /\ AppFrame

edgehog_device_thread_entry_point ==
    \/ EdgehogWaitCreate \/ EdgehogNew \/ EdgehogSignalConnect \/ EdgehogWaitStart
    \/ EdgehogStart \/ EdgehogRun \/ EdgehogStop \/ EdgehogDestroy

NextStartup ==
    \/ MainTerminate
    \/ MainJoin
    \/ astarte_device_thread_entry_point
    \/ astarte_device_connection_callback
    \/ edgehog_device_thread_entry_point

SpecStartup == InitStartup /\ [][NextStartup]_vars

\* The three threads are scheduled again and again (each of their waits sleeps
\* between two tests of its bit); nothing is assumed about the arrival of the
\* connection callback.
ThreadsScheduled ==
    /\ WF_vars(MainTerminate \/ MainJoin)
    /\ WF_vars(astarte_device_thread_entry_point)
    /\ WF_vars(edgehog_device_thread_entry_point)

SpecStartupFair == InitStartup /\ [][NextStartup]_vars /\ ThreadsScheduled

(***************************************************************************)
(* getaddrinfo.c: edgehog_getaddrinfo and edgehog_freeaddrinfo in a build  *)
(* without socket offloading.  Such a build opens its sockets on Zephyr's  *)
(* own IP stack, so CONFIG_NET_IP is defined; the DNS resolver is there or *)
(* not.  The outcome of edgehog_calloc and of the DNS lookup are inputs.   *)
(***************************************************************************)
DNS_EAI_NONAME == -2
DNS_EAI_FAIL == -4
DNS_EAI_MEMORY == -10

CONFIG_NET_IP == TRUE

\* #if defined(CONFIG_DNS_RESOLVER) || defined(CONFIG_NET_IP)
ANY_RESOLVER(g) == g.CONFIG_DNS_RESOLVER \/ CONFIG_NET_IP

\* The host arguments: none, an IPv4 literal, an IPv6 literal, a name.
Hosts == {NULL, "192.0.2.1", "2001:db8::1", "example.com"}

\* The service arguments: none, decimal ports in and out of range, a name.
Services == {NULL, "0", "80", "65535", "65536", "http"}

\* The hints argument: a null pointer (the empty sequence) or one structure.
Hints ==
    {<< >>} \cup
    { <<h>> : h \in [ ai_family : {"AF_UNSPEC", "AF_INET", "AF_INET6"},
                      ai_socktype : {"SOCK_STREAM", "SOCK_DGRAM"} ] }

\* What z_zsock_getaddrinfo_internal may return.
DnsResults == {0, DNS_EAI_NONAME, DNS_EAI_FAIL}

\* net_ipaddr_parse on the hosts above: whether the string is a literal
\* address and the family it stored in the socket address.
net_ipaddr_parse(host) ==
    IF host = "192.0.2.1" THEN [ result |-> TRUE, sa_family |-> "AF_INET" ]
    ELSE IF host = "2001:db8::1" THEN [ result |-> TRUE, sa_family |-> "AF_INET6" ]
    ELSE [ result |-> FALSE, sa_family |-> "AF_UNSPEC" ]

\* strtol(service, NULL, 10) on the services above: the leading decimal
\* digits, 0 when there is none.
strtol(service) ==
    IF service = "80" THEN 80
    ELSE IF service = "65535" THEN 65535
    ELSE IF service = "65536" THEN 65536
    ELSE 0

\* try_resolve_literal_addr: the value returned and the fields of the first
\* array element afterwards; ai is the element as it was handed in.
try_resolve_literal_addr(host, service, hints, ai) ==
    LET family == IF hints # << >> THEN hints[1].ai_family ELSE "AF_UNSPEC"
        dgram == hints # << >> /\ hints[1].ai_socktype = "SOCK_DGRAM"
        socktype == IF dgram THEN "SOCK_DGRAM" ELSE "SOCK_STREAM"
        protocol == IF dgram THEN "IPPROTO_UDP" ELSE "IPPROTO_TCP"
        parsed == net_ipaddr_parse(host)
        resolved_family == parsed.sa_family
        port == IF service # NULL THEN strtol(service) ELSE 0
        filled == [ ai_family |-> resolved_family, ai_socktype |-> socktype,
                    ai_protocol |-> protocol, port |-> ai.port ]
    IN  IF host = NULL THEN [ ret |-> DNS_EAI_NONAME, ai |-> ai ]
        ELSE IF ~parsed.result THEN [ ret |-> DNS_EAI_NONAME, ai |-> ai ]
        ELSE IF family # "AF_UNSPEC" /\ resolved_family # family
        THEN [ ret |-> DNS_EAI_NONAME, ai |-> ai ]
        ELSE IF service # NULL /\ (port < 1 \/ port > 65535)
        THEN [ ret |-> DNS_EAI_NONAME, ai |-> ai ]
        ELSE IF resolved_family \in {"AF_INET", "AF_INET6"}
        THEN [ ret |-> 0, ai |-> [filled EXCEPT !.port = port] ]
        ELSE [ ret |-> DNS_EAI_NONAME, ai |-> filled ]

\* z_zsock_getaddrinfo_internal returning dns_ret: on success it has written
\* an address of the family asked for into the array.
z_zsock_getaddrinfo_internal(service, hints, ai, dns_ret) ==
    LET dgram == hints # << >> /\ hints[1].ai_socktype = "SOCK_DGRAM"
        family == IF hints # << >> /\ hints[1].ai_family = "AF_INET6"
                  THEN "AF_INET6" ELSE "AF_INET"
    IN  [ ret |-> dns_ret,
          ai |-> IF dns_ret = 0
                 THEN [ ai_family |-> family,
                        ai_socktype |-> IF dgram THEN "SOCK_DGRAM" ELSE "SOCK_STREAM",
                        ai_protocol |-> IF dgram THEN "IPPROTO_UDP" ELSE "IPPROTO_TCP",
                        port |-> IF service # NULL THEN strtol(service) ELSE 0 ]
                 ELSE ai ]

\* edgehog_free(ptr) on the heap of g: a null pointer is ignored, the array
\* is released, an array that is not allocated any more corrupts the heap.
edgehog_free(g, ptr) ==
    IF ptr = "array"
    THEN [g EXCEPT !.frees = @ + 1,
                   !.heap = IF @ = "allocated" THEN "free" ELSE "corrupt"]
    ELSE g

\* edgehog_getaddrinfo with a failed resolution that frees the array and
\* leaves *res pointing to it.
edgehog_getaddrinfo_dangling(g, host, service, hints, calloc_ok, dns_ret) ==
    LET called == [g EXCEPT !.pc = "returned", !.host = host,
                            !.service = service, !.hints = hints,
                            !.ret = DNS_EAI_FAIL]
        \* *res = edgehog_calloc(AI_ARR_MAX, sizeof(struct zsock_addrinfo))
        array == IF ~ANY_RESOLVER(g) THEN called
                 ELSE IF calloc_ok
                 THEN [called EXCEPT !.res = "array", !.heap = "allocated",
                                     !.callocs = @ + 1, !.ai = NoAddrinfo]
                 ELSE [called EXCEPT !.res = NULL]
        lit == try_resolve_literal_addr(host, service, hints, array.ai)
        literal == IF CONFIG_NET_IP /\ array.ret # 0
                   THEN [array EXCEPT !.ret = lit.ret, !.literal_ret = lit.ret,
                                      !.literal_calls = @ + 1, !.ai = lit.ai]
                   ELSE array
        dns == z_zsock_getaddrinfo_internal(service, hints, literal.ai, dns_ret)
        resolved == IF g.CONFIG_DNS_RESOLVER /\ literal.ret # 0
                    THEN [literal EXCEPT !.ret = dns.ret, !.dns_calls = @ + 1,
                                         !.ai = dns.ai]
                    ELSE literal
    IN  IF ANY_RESOLVER(g) /\ array.res = NULL
        THEN [array EXCEPT !.ret = DNS_EAI_MEMORY]
        ELSE IF ANY_RESOLVER(g) /\ resolved.ret # 0
        THEN edgehog_free(resolved, resolved.res)
        ELSE resolved

\* edgehog_getaddrinfo(host, service, hints, &res) called in the state g, with
\* edgehog_calloc succeeding or not and the DNS lookup, if it is made,
\* returning dns_ret: the state when the function returns.
edgehog_getaddrinfo(g, host, service, hints, calloc_ok, dns_ret) ==
    LET called == [g EXCEPT !.pc = "returned", !.host = host,
                            !.service = service, !.hints = hints,
                            !.ret = DNS_EAI_FAIL]
        \* *res = edgehog_calloc(AI_ARR_MAX, sizeof(struct zsock_addrinfo))
        array == IF ~ANY_RESOLVER(g) THEN called
                 ELSE IF calloc_ok
                 THEN [called EXCEPT !.res = "array", !.heap = "allocated",
                                     !.callocs = @ + 1, !.ai = NoAddrinfo]
                 ELSE [called EXCEPT !.res = NULL]
        lit == try_resolve_literal_addr(host, service, hints, array.ai)
        literal == IF CONFIG_NET_IP /\ array.ret # 0
                   THEN [array EXCEPT !.ret = lit.ret, !.literal_ret = lit.ret,
                                      !.literal_calls = @ + 1, !.ai = lit.ai]
                   ELSE array
        dns == z_zsock_getaddrinfo_internal(service, hints, literal.ai, dns_ret)
        resolved == IF g.CONFIG_DNS_RESOLVER /\ literal.ret # 0
                    THEN [literal EXCEPT !.ret = dns.ret, !.dns_calls = @ + 1,
                                         !.ai = dns.ai]
                    ELSE literal
    IN  IF ANY_RESOLVER(g) /\ array.res = NULL
        THEN [array EXCEPT !.ret = DNS_EAI_MEMORY]
        ELSE IF ANY_RESOLVER(g) /\ resolved.ret # 0
        THEN [edgehog_free(resolved, resolved.res) EXCEPT !.res = NULL]
        ELSE resolved

ResolverFrame ==
    /\ scope = "resolver"
    /\ UNCHANGED << phase, rpc, rset, run_bit, td, freed, reused, wk, settings, boot,
                    wlog, hlog, rlog, hret, seq, n_updates, n_cancels, n_faults,
                    n_crashes, n_race, scope, app, cmd, n_invalid >>

\* The caller calls edgehog_getaddrinfo(host, service, hints, &res).
CallGetaddrinfo ==
    /\ gai.pc = "idle"
    /\ \E host \in Hosts, service \in Services, hints \in Hints,
          calloc_ok \in BOOLEAN, dns_ret \in DnsResults :
            gai' = edgehog_getaddrinfo(gai, host, service, hints, calloc_ok, dns_ret)
    /\ ResolverFrame

\* The caller calls edgehog_freeaddrinfo(res) with the pointer it got back.
edgehog_freeaddrinfo ==
    /\ gai.pc = "returned"
    /\ gai' = [edgehog_free(gai, gai.res) EXCEPT !.pc = "released"]
    /\ ResolverFrame

NextResolver == CallGetaddrinfo \/ edgehog_freeaddrinfo

SpecResolver == InitResolver /\ [][NextResolver]_vars

(***************************************************************************)
(* Properties.                                                             *)
(***************************************************************************)
\* C1: at most one OTA worker thread is live at any time, whatever the
\* interleaving of Update commands, Cancel commands and worker steps.
C1_AtMostOneWorkerLive == Cardinality(LiveWorkers) <= 1

\* This step handles the Update command that carries the uuid u.
UpdateHandled(u) == n_updates < u /\ n_updates' = u

\* This step admits the Update u: request duplicated, run bit set, worker spawned.
UpdateIsAdmitted(u) ==
    /\ td'.uuid = u /\ td'.download_url = u
    /\ run_bit'
    /\ wk'[u].pc = "ack"

\* This step publishes exactly one event, from the command handler: a Failure
\* with statusCode UpdateAlreadyInProgress and the uuid u.
OnlyAlreadyInProgressPublished(u) ==
    /\ Len(hlog') = Len(hlog) + 1
    /\ SubSeq(hlog', 1, Len(hlog)) = hlog
    /\ hlog'[Len(hlog')].requestUUID = u
    /\ hlog'[Len(hlog')].status = "Failure"
    /\ hlog'[Len(hlog')].statusCode = "UpdateAlreadyInProgress"
    /\ wlog' = wlog /\ rlog' = rlog

\* C2 as stated: an Update is admitted if and only if the run bit is clear when
\* it is handled; with the run bit set the handler publishes exactly one
\* Failure / UpdateAlreadyInProgress with the new uuid and returns
\* ALREADY_IN_PROGRESS.
C2_AdmittedIffRunBitClear ==
    [][\A u \in Uuids : UpdateHandled(u) =>
          /\ UpdateIsAdmitted(u) <=> ~run_bit
          /\ run_bit => /\ OnlyAlreadyInProgressPublished(u)
                        /\ hret' = "OTA_ALREADY_IN_PROGRESS"]_vars

\* C2 amended: an Update is admitted if and only if the run bit is clear when
\* it is handled and neither the duplication of its strings nor the creation
\* of the thread fails; with the run bit set the handler publishes exactly one
\* Failure / UpdateAlreadyInProgress with the new uuid and returns
\* ALREADY_IN_PROGRESS.
C2_AdmittedIffRunBitClearAndNoFailure ==
    [][\A u \in Uuids : UpdateHandled(u) =>
          /\ UpdateIsAdmitted(u) <=> (~run_bit /\ n_faults' = n_faults)
          /\ run_bit => /\ OnlyAlreadyInProgressPublished(u)
                        /\ hret' = "OTA_ALREADY_IN_PROGRESS"]_vars

\* An Update was rejected while the worker of an earlier Update is live.
C2_RejectedWhileRunning ==
    /\ hret = "OTA_ALREADY_IN_PROGRESS"
    /\ hlog # << >> /\ hlog[Len(hlog)].requestUUID = n_updates
    /\ \E w \in LiveWorkers : w < n_updates

\* C3: an Update rejected because the run bit is set leaves the running
\* request (uuid, url), the flash context, image_size, download_size,
\* last_perc_sent, the run bit, the workers and the persisted ota/state and
\* ota/req_id as they were.
C3_RejectedUpdateChangesNothing ==
    [][\A u \in Uuids : UpdateHandled(u) /\ run_bit =>
          UNCHANGED << td, run_bit, wk, freed, reused, settings >>]_vars

\* An Update was rejected while a worker that already wrote part of an image
\* and saved its request id is live.
C3_RejectedDuringDownload ==
    /\ hret = "OTA_ALREADY_IN_PROGRESS"
    /\ \E w \in LiveWorkers : wk[w].pc = "download" /\ td.uuid = w
    /\ td.bytes_written > 0 /\ td.last_perc_sent > 0
    /\ settings.req_id = td.uuid /\ settings.state = OTA_STATE_IN_PROGRESS

\* C4: for every request uuid, the status values published by the workers
\* and then by edgehog_ota_init form a prefix of
\* Ack Downloading* (Error Downloading*){0,4} Deploying Deployed Rebooting Success
\* or of
\* Ack Downloading* (Error Downloading*){0,4} (Deploying Deployed Rebooting)? Failure.
C4_StatusSequenceInProtocol == \A u \in Uuids : seq[u].at # "rejected"

\* What an event shows to the cloud, apart from its message.
Shown(e) == << e.requestUUID, e.status, e.statusProgress, e.statusCode >>

ShownLog(log) == [i \in 1..Len(log) |-> Shown(log[i])]

\* Ack, five times (Downloading(0), Error(ErrorNetwork)), Failure(ErrorNetwork).
RECURSIVE DownloadingErrorPairs(_, _)
DownloadingErrorPairs(u, n) ==
    IF n = 0 THEN << >>
    ELSE << << u, "Downloading", 0, "" >>, << u, "Error", 0, "ErrorNetwork" >> >>
            \o DownloadingErrorPairs(u, n - 1)

FiveNetworkFailuresLog(u) ==
    << << u, "Acknowledged", 0, "" >> >>
        \o DownloadingErrorPairs(u, MAX_OTA_RETRY)
        \o << << u, "Failure", 0, "ErrorNetwork" >> >>

\* All five attempts of worker w failed with a network error, no call failed
\* and no Cancel arrived.
FiveNetworkFailures(w) ==
    /\ wk[w].attempts = MAX_OTA_RETRY /\ wk[w].result = "NETWORK_ERROR"
    /\ n_faults = 0 /\ n_cancels = 0

\* This step is the return of worker w's thread function.
WorkerReturns(w) == wk[w].pc = "final_save_idle" /\ wk'[w].pc = "done"

\* C5: when all five attempts fail with a network error and no Cancel arrives,
\* the worker publishes exactly Ack, five times (Downloading(0),
\* Error(ErrorNetwork)), Failure(ErrorNetwork); when it has finished the
\* persisted state is IDLE, ota/req_id is deleted and the run bit is clear.
C5_FiveNetworkFailures ==
    /\ [](\A w \in Uuids :
            FiveNetworkFailures(w) /\ wk[w].pc \in {"save_idle", "clear_bit"} =>
                ShownLog(wlog[w]) = FiveNetworkFailuresLog(w))
    /\ [][\A w \in Uuids : FiveNetworkFailures(w) /\ WorkerReturns(w) =>
            /\ settings'.state = OTA_STATE_IDLE
            /\ settings'.req_id = NoUuid
            /\ ~run_bit']_vars

\* This step is worker w's boot_read_bank_header or boot_request_upgrade.
DeployCall(w) ==
    \/ wk[w].pc = "read_header" /\ wk'[w].pc \in {"request_upgrade", "clear_bit"}
    \/ wk[w].pc = "request_upgrade" /\ wk'[w].pc \in {"pub_deployed", "clear_bit"}

\* C6: the secondary bank header is read and the upgrade is requested only
\* while the persisted state is REBOOT, never while it is still IDLE or
\* IN_PROGRESS, also when the save of REBOOT fails.
C6_RebootPersistedBeforeUpgrade ==
    [][\A w \in Uuids : DeployCall(w) => settings.state = OTA_STATE_REBOOT]_vars

\* C7: in every persisted state, ota/state = IDLE implies ota/req_id absent.
C7_IdleHasNoReqId ==
    settings.state = OTA_STATE_IDLE => settings.req_id = NoUuid

\* Positions of a worker from its save of REBOOT to its sys_reboot.
DeployPcs ==
    { "read_header", "request_upgrade", "pub_deployed", "pub_rebooting",
      "reboot_wait", "reboot" }

\* C8: in every persisted state, ota/state = REBOOT implies ota/req_id is
\* present and is the uuid of the Update whose image is (about to be) marked
\* for the swap.
C8_RebootHasReqId ==
    settings.state = OTA_STATE_REBOOT =>
        /\ settings.req_id \in Uuids
        /\ \A w \in LiveWorkers : wk[w].pc \in DeployPcs => settings.req_id = w

\* The changes of ota/state the design allows (0: the key was never written).
AllowedStateChanges ==
    { << OTA_STATE_IDLE, OTA_STATE_IN_PROGRESS >>,
      << OTA_STATE_IN_PROGRESS, OTA_STATE_REBOOT >>,
      << OTA_STATE_IN_PROGRESS, OTA_STATE_IDLE >>,
      << OTA_STATE_REBOOT, OTA_STATE_IDLE >> }
        \cup { << 0, t >> : t \in OtaStates }

\* C9: the persisted ota/state changes only IDLE -> IN_PROGRESS,
\* IN_PROGRESS -> REBOOT, IN_PROGRESS -> IDLE and REBOOT -> IDLE.
C9_StateChangesInOrder ==
    [][settings'.state # settings.state =>
          << settings.state, settings'.state >> \in AllowedStateChanges]_vars

\* Worker w published an event in this step.
Published(w) == wlog'[w] # wlog[w] /\ wlog'[w] # << >>

FailuresIn(log) == {i \in 1..Len(log) : log[i].status = "Failure"}

\* C10: after a Cancel accepted while worker w was downloading, w writes no
\* further chunk, publishes nothing but one Failure / Canceled, and returns
\* with the run bit clear and the persisted state IDLE.
C10_CancelDuringDownload ==
    /\ [](\A w \in Uuids : wk[w].cancelled /\ wk[w].pc = "clear_bit" =>
            /\ Cardinality(FailuresIn(wlog[w])) = 1
            /\ wlog[w][Len(wlog[w])].status = "Failure"
            /\ wlog[w][Len(wlog[w])].statusCode = "Canceled")
    /\ [][\A w \in Uuids : wk[w].cancelled =>
            /\ wk'[w].chunk <= wk[w].chunk
            /\ Published(w) =>
                  /\ wlog'[w][Len(wlog'[w])].status = "Failure"
                  /\ wlog'[w][Len(wlog'[w])].statusCode = "Canceled"
            /\ WorkerReturns(w) =>
                  ~run_bit' /\ settings'.state = OTA_STATE_IDLE]_vars

\* This step handles a Cancel command (its fields are in cmd afterwards).
CancelHandled == n_cancels' = n_cancels + 1

\* This step publishes exactly one event, from the command handler: a Failure
\* with the given statusCode and the uuid u.
OnlyHandlerFailurePublished(u, code) ==
    /\ Len(hlog') = Len(hlog) + 1
    /\ SubSeq(hlog', 1, Len(hlog)) = hlog
    /\ hlog'[Len(hlog')].requestUUID = u
    /\ hlog'[Len(hlog')].status = "Failure"
    /\ hlog'[Len(hlog')].statusCode = code
    /\ wlog' = wlog /\ rlog' = rlog

\* C11: a Cancel handled while the run bit is clear publishes exactly one
\* Failure / InvalidRequest carrying the cancel's uuid, returns INVALID_REQUEST
\* and leaves the run bit and the persisted ota/state and ota/req_id unchanged.
C11_CancelWithoutUpdateRunning ==
    [][CancelHandled /\ ~run_bit =>
          /\ OnlyHandlerFailurePublished(cmd'.uuid, "InvalidRequest")
          /\ hret' = "OTA_INVALID_REQUEST"
          /\ UNCHANGED << run_bit, settings >>]_vars

\* A Cancel was turned down with the run bit clear while a request's record is
\* still persisted (its worker cleared the bit and has not finished unwinding).
C11_CancelRejectedAfterUpdate ==
    /\ cmd.operation = "Cancel" /\ hret = "OTA_INVALID_REQUEST"
    /\ ~run_bit
    /\ settings.req_id \in Uuids
    /\ hlog # << >> /\ hlog[Len(hlog)].requestUUID = cmd.uuid

\* The Cancel handled in this step finds the run bit set and a 36-character
\* req_id persisted.
CancelFindsUpdateRunning ==
    /\ CancelHandled
    /\ run_bit
    /\ StrLen(settings.req_id) = ASTARTE_UUID_STR_LEN

\* The Cancel handled in this step clears the run bit and publishes nothing.
CancelClearsRunBit ==
    /\ ~run_bit'
    /\ hret' = "OK"
    /\ hlog' = hlog /\ wlog' = wlog /\ rlog' = rlog

StepsTowardsReboot(w) ==
    \/ /\ wk[w].pc = "pub_deployed" /\ wk'[w].pc = "pub_rebooting"
       /\ Published(w)
       /\ wlog'[w][Len(wlog'[w])].status = "Deployed"
       /\ wlog'[w][Len(wlog'[w])].requestUUID = w
    \/ /\ wk[w].pc = "pub_rebooting" /\ wk'[w].pc = "reboot_wait"
       /\ Published(w)
       /\ wlog'[w][Len(wlog'[w])].status = "Rebooting"
       /\ wlog'[w][Len(wlog'[w])].requestUUID = w
    \/ /\ wk[w].pc = "reboot_wait" /\ wk'[w].pc = "reboot"
       /\ ~Published(w)

\* C13: after a Cancel accepted once worker w's boot_request_upgrade had
\* succeeded, the worker's only steps are Deployed, Rebooting, the wait and the
\* reboot (the device resets); it publishes no Failure, and the reconciliation
\* after the reboot publishes no Failure / Canceled either.
C13_CancelAfterUpgradeIgnored ==
    /\ [](\A i \in 1..Len(rlog) : rlog[i].statusCode # "Canceled")
    /\ [][\A w \in Uuids : wk[w].late_cancel =>
            \/ wk'[w].pc = wk[w].pc /\ ~Published(w)
            \/ StepsTowardsReboot(w)
            \/ phase' = "boot"]_vars

\* A Cancel was accepted after the upgrade was requested, and the worker has
\* gone on to the point of calling sys_reboot.
C13_CancelledAfterUpgrade ==
    /\ cmd.operation = "Cancel" /\ hret = "OK"
    /\ ~run_bit
    /\ boot.pending
    /\ \E w \in LiveWorkers : wk[w].pc = "reboot" /\ wk[w].late_cancel

\* C14: an Update that finds the run bit clear but cannot be prepared (a copy
\* of the uuid or url cannot be allocated, the thread cannot be created)
\* publishes one Failure / InternalError with its uuid, and the run bit is
\* clear when the handler returns.
C14_PreparationFailureReported ==
    [][\A u \in Uuids : UpdateHandled(u) /\ ~run_bit /\ ~UpdateIsAdmitted(u) =>
          /\ OnlyHandlerFailurePublished(u, "InternalError")
          /\ ~run_bit']_vars

\* The event worker w publishes in this step (when Published(w)), and the one
\* it published last before.
NewEvent(w) == wlog'[w][Len(wlog'[w])]
LastEvent(w) == wlog[w][Len(wlog[w])]

\* Worker w publishes a Downloading event in this step.
DownloadingPublished(w) == Published(w) /\ NewEvent(w).status = "Downloading"

ProgressValues == {OTA_PROGRESS_PERC_ROUNDING_STEP * k : k \in 0..10}

\* C15: every statusProgress published with status Downloading is a multiple
\* of 10 within [0, 100], and the values the sink publishes during one attempt
\* never go down, in every attempt of the retry loop (also after an attempt
\* that wrote only a part of the image).
C15_ProgressInRangeAndMonotone ==
    [][\A w \in Uuids : DownloadingPublished(w) =>
          /\ NewEvent(w).statusProgress \in ProgressValues
          /\ wk[w].pc = "download" /\ wlog[w] # << >> =>
                NewEvent(w).statusProgress >= LastEvent(w).statusProgress]_vars

\* The Downloading events at the end of a log: those of the attempt under way
\* (every attempt starts after an Acknowledged or an Error event).
RECURSIVE DownloadingTail(_)
DownloadingTail(log) ==
    IF log = << >> \/ log[Len(log)].status # "Downloading" THEN 0
    ELSE 1 + DownloadingTail(SubSeq(log, 1, Len(log) - 1))

\* Worker w handles a chunk in the sink in this step.
SinkCalled(w) == wk[w].pc = "download" /\ wk'[w].pc = "download" /\ wk'[w].chunk > wk[w].chunk

\* C16: within one attempt at most 11 Downloading events are published; the
\* sink publishes Downloading(percent) exactly when the percentage rounded
\* down to a multiple of 10 differs from last_perc_sent, whatever the sizes
\* of the chunks.
C16_AtMostElevenDownloading ==
    /\ [](\A w \in Uuids : DownloadingTail(wlog[w]) <= 11)
    /\ [][\A w \in Uuids : SinkCalled(w) =>
            LET perc == ReadPercRounded(td'.download_size, td'.image_size) IN
              /\ Published(w) <=> perc # td.last_perc_sent
              /\ Published(w) => /\ NewEvent(w).status = "Downloading"
                                 /\ NewEvent(w).statusProgress = perc
                                 /\ Len(wlog'[w]) = Len(wlog[w]) + 1]_vars

\* An attempt delivered the whole image and 11 Downloading events were
\* published for it.
C16_ElevenDownloadingPublished ==
    \E w \in LiveWorkers :
        /\ wk[w].pc = "attempt_check"
        /\ td.bytes_written = ImageSize
        /\ DownloadingTail(wlog[w]) = 11

\* A 36-character req_id is persisted.
ReqIdPersisted == StrLen(settings.req_id) = ASTARTE_UUID_STR_LEN

\* The conditions under which the running image is the freshly swapped one.
SwapToConfirm ==
    /\ settings.state = OTA_STATE_REBOOT
    /\ boot.swap_type = "NONE"
    /\ ~boot.confirmed

\* This step publishes exactly one event, from edgehog_ota_init, with the
\* uuid u, the given status and statusCode.
OnlyReconcilerPublished(u, status, code) ==
    /\ Len(rlog') = Len(rlog) + 1
    /\ SubSeq(rlog', 1, Len(rlog)) = rlog
    /\ rlog'[Len(rlog')].requestUUID = u
    /\ rlog'[Len(rlog')].status = status
    /\ rlog'[Len(rlog')].statusCode = code
    /\ hlog' = hlog /\ wlog' = wlog

NothingPublished == rlog' = rlog /\ hlog' = hlog /\ wlog' = wlog

\* The steps of one reconciliation after its load: Failure / InternalError at
\* once unless SwapToConfirm holds; otherwise the image is confirmed and
\* Success follows, or the confirmation fails and Failure / InternalError
\* follows; nothing else is published, and the image is confirmed nowhere else.
ReconcilerStepsAfterLoad ==
    /\ rpc = "confirm" =>
          \/ /\ boot'.confirmed /\ NothingPublished /\ rpc' = "success"
          \/ /\ boot' = boot /\ rpc' = "delete"
             /\ OnlyReconcilerPublished(settings.req_id, "Failure", "InternalError")
    /\ rpc = "success" =>
          /\ OnlyReconcilerPublished(settings.req_id, "Success", "")
          /\ rpc' = "delete"
    /\ rpc \in {"delete", "save"} => NothingPublished
    /\ boot' # boot => rpc = "confirm"

ReconcilerLoadStep ==
    IF SwapToConfirm
    THEN rpc' = "confirm" /\ NothingPublished /\ boot' = boot
    ELSE /\ OnlyReconcilerPublished(settings.req_id, "Failure", "InternalError")
         /\ rpc' = "delete" /\ boot' = boot

\* A step of edgehog_ota_init (not a reset in the middle of it).
ReconcilerStep == phase = "boot" /\ n_crashes' = n_crashes

C18_RecordClearedAfterReconciliation ==
    [][ReconcilerStep =>
          /\ phase' = "run" =>
                /\ settings'.req_id = NoUuid
                /\ settings'.state = OTA_STATE_IDLE
          /\ ~ReqIdPersisted => NothingPublished /\ boot' = boot]_vars

\* edgehog_ota_init has returned after a swap and the record of the update is
\* still in the store.
C18_RecordLeftAfterReconciliation ==
    /\ phase = "run" /\ rpc = "done"
    /\ \A w \in DOMAIN wk : wk[w] = NoWorker
    /\ ReqIdPersisted /\ settings.state = OTA_STATE_REBOOT

\* Event b may follow event a in the sequence of an update that goes well.
HappyNext(a, b) ==
    \/ /\ a.status = "Acknowledged"
       /\ b.status = "Downloading" /\ b.statusProgress = 0
    \/ /\ a.status = "Downloading" /\ b.status = "Downloading"
       /\ b.statusProgress > a.statusProgress
    \/ /\ a.status = "Downloading" /\ a.statusProgress = OTA_PROGRESS_PERC
       /\ b.status = "Deploying"
    \/ a.status = "Deploying" /\ b.status = "Deployed"
    \/ a.status = "Deployed" /\ b.status = "Rebooting"

\* What worker w has published so far is the beginning of Acknowledged,
\* Downloading from 0 strictly upwards to 100, Deploying, Deployed, Rebooting,
\* every event with the uuid of the request.
HappyPrefix(w) ==
    LET log == wlog[w] IN
    /\ log # << >> => log[1].status = "Acknowledged"
    /\ \A i \in 1..Len(log) :
          /\ log[i].requestUUID = w
          /\ log[i].statusCode = ""
          /\ i > 1 => HappyNext(log[i - 1], log[i])

\* The reconciliation of the boot that follows, when the swap took place and
\* the image is not yet confirmed: the image is confirmed, then Success is
\* published with the uuid of the Update.
HappyReconciliation ==
    ReconcilerStep /\ ReqIdPersisted /\ boot.swap_type = "NONE" =>
        /\ rpc = "load" /\ ~boot.confirmed =>
              rpc' = "confirm" /\ NothingPublished
        /\ rpc = "confirm" =>
              boot'.confirmed /\ rpc' = "success" /\ NothingPublished
        /\ rpc = "success" =>
              /\ boot.confirmed
              /\ OnlyReconcilerPublished(cmd.uuid, "Success", "")

\* C19: an admitted Update whose first download delivers the whole image, with
\* no Cancel and no storage or bootloader error, publishes Acknowledged,
\* Downloading from 0 strictly increasing to 100, Deploying, Deployed and
\* Rebooting, and reboots only then; the reconciliation of the next boot, with
\* swap type NONE and the image unconfirmed, confirms the image and publishes
\* Success for the same uuid.
C19_HappyPath ==
    /\ [](\A w \in Uuids : HappyPrefix(w) /\ seq[w].at # "rejected")
    /\ [][/\ phase = "run" /\ phase' = "boot" =>
                \E w \in Uuids :
                    /\ wlog[w] # << >>
                    /\ wlog[w][Len(wlog[w])].status = "Rebooting"
                    /\ settings.req_id = w /\ cmd.uuid = w
          /\ HappyReconciliation]_vars

\* The update went through: its uuid has passed the whole sequence up to
\* Success and the record is cleared.
C19_UpdateSucceeded ==
    /\ phase = "run" /\ n_faults = 0 /\ n_cancels = 0 /\ n_crashes = 0
    /\ cmd.operation = "Update"
    /\ seq[cmd.uuid].at = "success"
    /\ rlog # << >> /\ rlog[Len(rlog)].requestUUID = cmd.uuid
    /\ settings.req_id = NoUuid

\* edgehog_ota_event is called in this step; cmd' is the command it receives.
Dispatched ==
    n_updates' + n_cancels' + n_invalid' = n_updates + n_cancels + n_invalid + 1

\* The command lacks "uuid" or "operation", or is an Update without "url".
Incomplete(c) ==
    \/ c.uuid = NoUuid
    \/ c.operation = ""
    \/ c.operation = "Update" /\ c.url = NoUuid

\* The handlers of Update and Cancel were not entered: no worker is spawned,
\* the run bit, the request data and the persisted record stay as they are.
StateMachineUntouched ==
    /\ n_updates' = n_updates /\ n_cancels' = n_cancels
    /\ UNCHANGED << run_bit, wk, td, freed, settings, boot >>

\* C20: a command without uuid or operation, and an Update without url, is
\* rejected with INVALID_REQUEST, nothing published, no worker spawned, run bit
\* and persisted record unchanged; a complete command whose operation is
\* neither "Update" nor "Cancel" is rejected the same way and publishes exactly
\* one Failure / InvalidRequest with its uuid; the handlers of Update and
\* Cancel are entered by complete Update and Cancel commands only.
C20_DispatcherRejects ==
    [][Dispatched =>
          /\ Incomplete(cmd') =>
                /\ hret' = "OTA_INVALID_REQUEST"
                /\ StateMachineUntouched
                /\ NothingPublished
          /\ ~Incomplete(cmd') /\ cmd'.operation \notin {"Update", "Cancel"} =>
                /\ hret' = "OTA_INVALID_REQUEST"
                /\ StateMachineUntouched
                /\ OnlyHandlerFailurePublished(cmd'.uuid, "InvalidRequest")
          /\ ~StateMachineUntouched =>
                /\ ~Incomplete(cmd')
                /\ cmd'.operation \in {"Update", "Cancel"}
                /\ n_updates' # n_updates <=> cmd'.operation = "Update"]_vars

\* A command with an unknown operation was rejected while an update was
\* running, and the update runs on.
C20_UnknownOperationRejected ==
    /\ cmd.operation = "Other" /\ cmd.uuid # NoUuid
    /\ hret = "OTA_INVALID_REQUEST"
    /\ hlog # << >> /\ hlog[Len(hlog)].statusCode = "InvalidRequest"
    /\ hlog[Len(hlog)].requestUUID = cmd.uuid
    /\ run_bit /\ LiveWorkers # {}

\* The positions at which the worker calls the settings store.
SettingsCallPcs ==
    {"init", "save_in_progress", "save_req_id", "save_reboot", "save_idle",
     "delete_req_id", "final_save_idle"}

\* The settings call worker w makes in this step fails.
WorkerSettingsFailure(w) ==
    /\ n_faults' = n_faults + 1
    /\ wk[w].pc \in SettingsCallPcs
    /\ wk'[w] # wk[w]

\* Worker w publishes IOError in this step, or perform_ota returns a settings
\* error that the thread function is about to publish.
SurfacedAsIOError(w) ==
    \/ /\ Published(w)
       /\ wlog'[w][Len(wlog'[w])].statusCode = "IOError"
    \/ /\ wk'[w].pc = "result"
       /\ StatusCode(wk'[w].result) = "IOError"

\* A failed settings init in worker w: Acknowledged, then Failure / IOError,
\* and nothing else.
InitFailureAckThenFailure(w) ==
    wk[w].pc = "init" /\ WorkerSettingsFailure(w) =>
        /\ Len(wlog'[w]) = 2
        /\ wlog'[w][1].status = "Acknowledged"
        /\ wlog'[w][2].status = "Failure"
        /\ wlog'[w][2].statusCode = "IOError"

\* C21: every failure of a settings call (init, save, load, delete) made by
\* the worker or by the Cancel handler is reported by an event with statusCode
\* IOError; a failed settings init in the worker gives Acknowledged followed by
\* Failure / IOError and no Downloading.
C21_SettingsFailuresReportedAsIOError ==
    [][/\ \A w \in Uuids :
             /\ WorkerSettingsFailure(w) => SurfacedAsIOError(w)
             /\ InitFailureAckThenFailure(w)
             /\ wk[w].pc = "result" /\ wk[w].result # "OK" /\ wk'[w] # wk[w]
                   /\ phase' = "run" =>
                   /\ Published(w)
                   /\ wlog'[w][Len(wlog'[w])].statusCode = StatusCode(wk[w].result)
       /\ CancelHandled /\ n_faults' = n_faults + 1 =>
             OnlyHandlerFailurePublished(cmd'.uuid, "IOError")]_vars

\* The statusCode each error kind is to be reported with.
MappedStatusCode ==
    [ error \in Results |->
        IF error = "OK" THEN ""
        ELSE IF error = "OTA_INVALID_REQUEST" THEN "InvalidRequest"
        ELSE IF error = "OTA_ALREADY_IN_PROGRESS" THEN "UpdateAlreadyInProgress"
        ELSE IF error = "NETWORK_ERROR" THEN "ErrorNetwork"
        ELSE IF error = "SETTINGS_INIT_FAIL" THEN "IOError"
        ELSE IF error = "SETTINGS_SAVE_FAIL" THEN "IOError"
        ELSE IF error = "SETTINGS_LOAD_FAIL" THEN "IOError"
        ELSE IF error = "SETTINGS_DELETE_FAIL" THEN "IOError"
        ELSE IF error = "OTA_INVALID_IMAGE" THEN "InvalidBaseImage"
        ELSE IF error = "OTA_SYSTEM_ROLLBACK" THEN "SystemRollback"
        ELSE IF error = "OTA_CANCELED" THEN "Canceled"
        ELSE "InternalError" ]

\* C22: pub_ota_event gives every error kind its statusCode: "" for OK,
\* InvalidRequest, UpdateAlreadyInProgress, ErrorNetwork, IOError for the four
\* settings failures, InvalidBaseImage, SystemRollback, Canceled, and
\* InternalError for every other kind; the statusCode depends on the error
\* alone, so Error and Failure events carry the same code for the same error.
C22_StatusCodeMapping ==
    /\ \A error \in Results : StatusCode(error) = MappedStatusCode[error]
    /\ \A i \in 1..Len(hlog) :
          /\ i = Len(hlog) => hlog[i].statusCode = MappedStatusCode[hret]
          /\ hlog[i].status \in {EventStatus(event) : event \in OtaEvents}

\* An Error event was built for a failed swap: its code is InternalError.
C22_ErrorEventForSwapFail ==
    /\ scope = "events"
    /\ hret = "OTA_SWAP_FAIL"
    /\ hlog # << >>
    /\ hlog[Len(hlog)].status = "Error"
    /\ hlog[Len(hlog)].statusCode = "InternalError"

\* C23: every event a worker publishes carries the uuid of the request it was
\* started for, whatever commands are handled meanwhile; every event a command
\* handler publishes carries the uuid of the command being handled; every
\* event of the reconciliation carries the persisted req_id.
C23_EventsCarryRequestUuid ==
    [][/\ \A w \in Uuids :
             Published(w) => wlog'[w][Len(wlog'[w])].requestUUID = w
       /\ hlog' # hlog => hlog'[Len(hlog')].requestUUID = cmd'.uuid
       /\ rlog' # rlog => rlog'[Len(rlog')].requestUUID = settings.req_id]_vars

\* C24: in every interleaving of the Astarte thread, the Edgehog thread and
\* the connection callback, edgehog_device_new is called only after
\* astarte_device_new succeeded, astarte_device_connect is called only after
\* edgehog_device_new succeeded, and edgehog_device_start is called only after
\* the connection callback was delivered.
C24_StartupHandshake ==
    [][/\ app.edgehog = "new" /\ app'.edgehog # "new" =>
             app.astarte_device = "created"
       /\ app.astarte = "connect" /\ app'.astarte # "connect" =>
             app.edgehog_device = "created"
       /\ app.edgehog = "start" /\ app'.edgehog # "start" =>
             app.connection_cbk > 0]_vars

\* The Edgehog device was started, after the three steps of the handshake.
C24_EdgehogStarted ==
    /\ scope = "startup"
    /\ app.edgehog_device = "started"
    /\ app.astarte_device = "connecting"
    /\ app.connection_cbk > 0

\* Where worker w stands when it comes back from a suspension point: from
\* edgehog_http_download, from the back-off sleep, from the erase of the
\* secondary bank, from the 5 s wait before the reboot.
AfterSuspension(w) ==
    wk[w].pc \in {"attempt_check", "pub_error", "flash_init", "reboot"}

\* Worker w itself takes a step (it is not reset, and not lost in a race).
WorkerSteps(w) ==
    /\ wk'[w].pc \notin {wk[w].pc, "clobbered"}
    /\ n_crashes' = n_crashes

\* C25: a worker that comes back from a suspension point and finds the run bit
\* clear unwinds with OTA_CANCELED before it does anything else: no Error or
\* Downloading event, no flash init, no reboot.
C25_RunBitRecheckedAfterSuspension ==
    [][\A w \in Uuids :
          AfterSuspension(w) /\ ~run_bit /\ WorkerSteps(w) =>
              /\ phase' = "run"
              /\ wk'[w].pc = "result" /\ wk'[w].result = "OTA_CANCELED"
              /\ ~Published(w)
              /\ td' = td]_vars

\* A Cancel cleared the run bit while the worker slept between two attempts,
\* and the worker has gone on to the next attempt.
C25_NextAttemptAfterCancel ==
    \E w \in Uuids :
        /\ n_cancels = 1 /\ n_updates = 1 /\ hret = "OK" /\ ~run_bit
        /\ n_faults = 0 /\ n_crashes = 0
        /\ wk[w].pc = "download" /\ wk[w].attempts = 1
        /\ Len(wlog[w]) >= 2
        /\ wlog[w][Len(wlog[w]) - 1].status = "Error"
        /\ wlog[w][Len(wlog[w])].status = "Downloading"

\* The positions of worker w inside one pass of the attempt loop.
InAttempt(w) ==
    wk[w].pc \in {"pub_downloading", "download", "attempt_check", "sleep", "pub_error"}

\* Worker w publishes exactly one event in this step, with the given status.
PublishedOne(w, status) ==
    /\ Len(wlog'[w]) = Len(wlog[w]) + 1
    /\ wlog'[w][Len(wlog'[w])].status = status

\* C26: the retry loop makes at most MAX_OTA_RETRY = 5 attempts for a request;
\* an attempt that returns OK or OTA_CANCELED leaves the loop at once, without
\* a sleep and without an Error event; any other result is followed by
\* exactly one back-off sleep and then exactly one Error event with the
\* statusCode of that result.
C26_RetryLoop ==
    /\ [](\A w \in Uuids :
            /\ wk[w].attempts <= MAX_OTA_RETRY
            /\ InAttempt(w) => wk[w].attempts < MAX_OTA_RETRY)
    /\ [][\A w \in Uuids : WorkerSteps(w) =>
            /\ wk[w].pc = "attempt_check" =>
                  /\ ~Published(w)
                  /\ wk'[w].attempts = wk[w].attempts
                  /\ IF wk'[w].result \in {"OK", "OTA_CANCELED"}
                     THEN wk'[w].pc = "result"
                     ELSE wk'[w].pc = "sleep"
            /\ wk[w].pc = "sleep" =>
                  /\ ~Published(w)
                  /\ wk'[w].pc = "pub_error"
                  /\ wk'[w].result = wk[w].result
            /\ wk[w].pc = "pub_error" =>
                  /\ PublishedOne(w, "Error")
                  /\ wlog'[w][Len(wlog'[w])].statusCode = StatusCode(wk[w].result)
                  /\ wk'[w].attempts = wk[w].attempts + 1
                  /\ wk'[w].pc \in {"pub_downloading", "result"}
            /\ Published(w) /\ wlog'[w][Len(wlog'[w])].status = "Error" =>
                  wk[w].pc = "pub_error"
            /\ wk'[w].pc = "sleep" => wk[w].pc = "attempt_check"]_vars

\* Five attempts have failed: the loop is left with the last error.
C26_FiveAttemptsFailed ==
    \E w \in Uuids :
        /\ n_faults = 0 /\ n_crashes = 0
        /\ wk[w].pc = "result"
        /\ wk[w].attempts = MAX_OTA_RETRY
        /\ wk[w].result = "NETWORK_ERROR"
        /\ Cardinality({i \in 1..Len(wlog[w]) : wlog[w][i].status = "Error"})
              = MAX_OTA_RETRY

\* The results of a failed erase, flash writer init and flash write.
FlashErrors ==
    {"OTA_ERASE_SECOND_SLOT_ERROR", "OTA_INIT_FLASH_ERROR", "OTA_WRITE_FLASH_ERROR"}

\* C27: a failed erase of the secondary bank, a failed init of the flash
\* writer and a failed flash write in the sink are failures of an attempt:
\* each is reported by an Error event with statusCode InternalError and
\* followed by a further attempt, and perform_ota returns such an error (to
\* be published as Failure) only when all MAX_OTA_RETRY attempts were made.
C27_FlashFailuresRetried ==
    /\ [](\A w \in Uuids :
            wk[w].pc = "result" /\ wk[w].result \in FlashErrors =>
                wk[w].attempts = MAX_OTA_RETRY)
    /\ [][\A w \in Uuids :
            wk[w].pc = "pub_error" /\ wk[w].result \in FlashErrors /\ WorkerSteps(w) =>
                /\ PublishedOne(w, "Error")
                /\ wlog'[w][Len(wlog'[w])].statusCode = "InternalError"]_vars

\* The erase of the secondary bank failed and the worker has published
\* Failure without an Error event and without another attempt.
C27_EraseFailureNotRetried ==
    \E w \in Uuids :
        /\ wk[w].pc = "save_idle"
        /\ wk[w].result = "OTA_ERASE_SECOND_SLOT_ERROR"
        /\ wk[w].attempts = 0
        /\ Len(wlog[w]) = 2
        /\ wlog[w][1].status = "Acknowledged"
        /\ wlog[w][2].status = "Failure"

\* C28: every attempt starts with nothing written (erased bank, fresh flash
\* writer), so bytes_written counts the bytes of the attempt alone; an attempt
\* that downloads the complete image, whatever earlier attempts wrote, returns
\* OK and the worker goes on to Deploying.
C28_AttemptStartsFresh ==
    /\ [](\A w \in Uuids :
            wk[w].pc = "download" /\ ~wk[w].stale => td.bytes_written = wk[w].chunk)
    /\ [][\A w \in Uuids :
            /\ wk[w].pc = "attempt_check" /\ WorkerSteps(w)
            /\ run_bit /\ ~wk[w].stale
            /\ wk[w].dl_res = "OK" /\ wk[w].chunk = ImageSize
            => wk'[w].pc = "result" /\ wk'[w].result = "OK"]_vars

\* The second attempt has downloaded the complete image after a first attempt
\* that broke off half way, and is counted as a network error.
C28_CompleteDownloadRejected ==
    \E w \in Uuids :
        /\ n_updates = 1 /\ n_cancels = 0 /\ n_crashes = 0 /\ run_bit
        /\ wk[w].pc = "sleep" /\ wk[w].attempts = 1
        /\ wk[w].result = "NETWORK_ERROR"
        /\ td.image_size = ImageSize
        /\ td.bytes_written > td.image_size

\* C29: the result of a download attempt is OTA_CANCELED whenever the run bit
\* is clear when the download returns, whatever the downloader returned;
\* otherwise the downloader's error if it failed; otherwise NETWORK_ERROR if
\* bytes_written is 0 or differs from image_size; otherwise OK.
C29_AttemptResult ==
    [][\A w \in Uuids :
          wk[w].pc = "attempt_check" /\ WorkerSteps(w) =>
              /\ ~run_bit => wk'[w].result = "OTA_CANCELED"
              /\ run_bit /\ wk[w].dl_res # "OK" => wk'[w].result = wk[w].dl_res
              /\ run_bit /\ wk[w].dl_res = "OK" =>
                    IF td.bytes_written = 0 \/ td.bytes_written # td.image_size
                    THEN wk'[w].result = "NETWORK_ERROR"
                    ELSE wk'[w].result = "OK"]_vars

\* An attempt whose download was aborted by the sink after a Cancel has
\* returned OTA_CANCELED.
C29_CancelledAttempt ==
    \E w \in Uuids :
        /\ wk[w].pc = "result" /\ wk[w].result = "OTA_CANCELED"
        /\ wk[w].cancelled /\ ~run_bit
        /\ n_updates = 1 /\ n_faults = 0 /\ n_crashes = 0

\* The back-off slept over the first k failed attempts when the attempt with
\* zero-based index i is followed by i * 2000 ms: 0, 2000, 6000, 12000, 20000.
BackOffAfter ==
    [k \in 0..MAX_OTA_RETRY |->
        IF k = 0 THEN 0 ELSE IF k = 1 THEN 0 ELSE IF k = 2 THEN 2000
        ELSE IF k = 3 THEN 6000 ELSE IF k = 4 THEN 12000 ELSE 20000]

\* C30: the back-off slept after the failed attempt with zero-based index i is
\* i * 2000 ms, so that the back-offs of k failed attempts add up to
\* BackOffAfter[k], 20 000 ms for a fully exhausted cycle of 5 attempts; the
\* sleep comes before the Error event of the attempt.
C30_LinearBackOff ==
    /\ [](\A w \in Uuids :
            wk[w].slept = BackOffAfter[IF wk[w].pc = "pub_error"
                                       THEN wk[w].attempts + 1
                                       ELSE wk[w].attempts])
    /\ [][\A w \in Uuids : WorkerSteps(w) =>
            /\ wk[w].pc = "sleep" =>
                  /\ wk'[w].slept - wk[w].slept = wk[w].attempts * 2000
                  /\ wk'[w].pc = "pub_error"
                  /\ ~Published(w)
            /\ wk[w].pc # "sleep" /\ wk'[w].pc \notin {"none", "done"} =>
                  wk'[w].slept = wk[w].slept
            /\ Published(w) /\ wlog'[w][Len(wlog'[w])].status = "Error" =>
                  wk[w].pc = "pub_error"
            /\ wk'[w].pc = "pub_error" => wk[w].pc = "sleep"]_vars

\* All five attempts have failed and the worker has slept 20 000 ms in all.
C30_TwentySecondsSlept ==
    \E w \in Uuids :
        /\ wk[w].pc = "result" /\ wk[w].attempts = MAX_OTA_RETRY
        /\ wk[w].slept = 20000
        /\ n_crashes = 0 /\ boot.confirmed

\* Worker w came out of perform_ota with a failure and is on its way out.
LoopFailed(w) == Live(w) /\ wk[w].result # "OK"

\* Positions of a worker that still has a write to the settings store ahead:
\* the save of IDLE, the delete of ota/req_id, the last save of IDLE.
SettingsWritesPending(w) ==
    wk[w].pc \in {"save_idle", "clear_bit", "free", "delete_req_id", "final_save_idle"}

\* C31: when the retry loop has failed, the worker publishes Failure, persists
\* state = IDLE, deletes ota/req_id and only then clears the run bit: the bit
\* is cleared while the persisted record is idle without a req_id, and as long
\* as the worker has settings writes pending the bit stays set unless a
\* Cancel cleared it, so that no Update is admitted beside the exiting worker.
C31_RunBitClearedLast ==
    /\ [](\A w \in Uuids :
            LoopFailed(w) /\ SettingsWritesPending(w) /\ n_cancels = 0 /\ ~wk[w].stale
                => run_bit)
    /\ [][\A w \in Uuids :
            LoopFailed(w) /\ WorkerSteps(w) /\ wk[w].pc = "clear_bit" =>
                /\ settings.state = OTA_STATE_IDLE
                /\ settings.req_id = NoUuid]_vars

\* All five attempts of the first Update failed, no call failed, no Cancel
\* arrived: its worker has cleared the run bit, a second Update was admitted
\* and runs while the first worker has its delete of ota/req_id still ahead.
C31_UpdateAdmittedBesideExitingWorker ==
    /\ n_faults = 0 /\ n_crashes = 0 /\ n_cancels = 0
    /\ wk[1].pc = "delete_req_id" /\ wk[1].attempts = MAX_OTA_RETRY
    /\ settings.req_id = 1
    /\ run_bit /\ Live(2)

\* C32: in every persisted state, ota/state = IN_PROGRESS or REBOOT implies
\* that ota/req_id is present, also between the worker's save of IN_PROGRESS
\* and its save of the request id.
C32_NonIdleHasReqId ==
    settings.state \in {OTA_STATE_IN_PROGRESS, OTA_STATE_REBOOT} =>
        StrLen(settings.req_id) = ASTARTE_UUID_STR_LEN

\* The device was reset after the worker saved IN_PROGRESS and before it saved
\* the request id: edgehog_ota_init finds a non-idle state without a req_id.
C32_ResetBeforeReqIdSaved ==
    /\ n_crashes = 1 /\ n_updates = 1
    /\ phase = "boot" /\ rpc = "load"
    /\ settings.state = OTA_STATE_IN_PROGRESS
    /\ settings.req_id = NoUuid

\* This step is the failure of worker w's boot_read_bank_header or
\* boot_request_upgrade.
DeployCallFails(w) ==
    /\ wk[w].pc \in {"read_header", "request_upgrade"}
    /\ wk'[w].pc = "clear_bit"

StatusesIn(log) == {log[i].status : i \in 1..Len(log)}

\* C33: when the read of the secondary bank header or the upgrade request
\* fails after Deploying was published, the worker publishes Failure /
\* InternalError and nothing after it, neither Deployed nor Rebooting, never
\* reboots, and returns with the run bit clear, ota/req_id deleted and the
\* persisted state IDLE.
C33_DeployFailure ==
    [][\A w \in Uuids :
          /\ DeployCallFails(w) =>
                /\ "Deploying" \in StatusesIn(wlog[w])
                /\ Published(w)
                /\ NewEvent(w).status = "Failure"
                /\ NewEvent(w).statusCode = "InternalError"
                /\ StatusesIn(wlog'[w]) \cap {"Deployed", "Rebooting"} = {}
                /\ boot' = boot
          /\ wk[w].deploy_failed /\ WorkerSteps(w) =>
                /\ ~Published(w)
                /\ phase' = "run"
                /\ wk'[w].pc \in {"free", "delete_req_id", "final_save_idle", "done"}
          /\ wk[w].deploy_failed /\ WorkerReturns(w) =>
                /\ ~run_bit'
                /\ settings'.req_id = NoUuid
                /\ settings'.state = OTA_STATE_IDLE]_vars

\* The read of the header (or the upgrade request) of a completely downloaded
\* image failed and the worker has returned, with no Update admitted in
\* between: no upgrade is pending, the record is idle, the bit is clear.
C33_DeployCallFailed ==
    /\ n_faults = 1 /\ n_updates = 1 /\ wk[1].pc = "done"
    /\ td.bytes_written = NumChunks
    /\ ~boot.pending /\ ~run_bit
    /\ settings = [state |-> OTA_STATE_IDLE, req_id |-> NoUuid]
    /\ seq[1].at = "rejected"

\* Positions of a worker that has not persisted its request id yet: it is
\* acknowledging, initialising the settings, saving IN_PROGRESS, erasing the
\* bank, initialising the flash writer or about to save the id.
BeforeReqIdSaved ==
    {"ack", "init", "save_in_progress", "erase", "flash_init", "save_req_id"}

\* The worker of the Update admitted last is live and has not persisted its
\* request id.
RunningWorkerBeforeReqIdSaved ==
    /\ n_updates \in Uuids
    /\ wk[n_updates].pc \in BeforeReqIdSaved

\* C34: a Cancel handled while the run bit is set and the running worker has
\* not persisted its request id yet publishes exactly one Failure /
\* InternalError carrying the cancel's uuid and leaves the run bit set and
\* every worker as it was.
C34_CancelBeforeReqIdSaved ==
    [][CancelHandled /\ run_bit /\ RunningWorkerBeforeReqIdSaved =>
          /\ OnlyHandlerFailurePublished(cmd'.uuid, "InternalError")
          /\ run_bit'
          /\ wk' = wk]_vars

\* A Cancel was turned down with InternalError while the worker of the only
\* Update had not persisted its request id, and the worker has gone on to
\* download.
C34_UpdateContinuesAfterCancel ==
    /\ n_updates = 1 /\ n_cancels = 1
    /\ hret = "OTA_INTERNAL_ERROR"
    /\ hlog # << >> /\ hlog[Len(hlog)].statusCode = "InternalError"
    /\ run_bit /\ wk[1].pc = "download" /\ wk[1].chunk > 0
    /\ settings.req_id = 1

\* Worker w is over: its thread function has returned, or the device was reset.
Terminated(w) == wk[w].pc \in {"none", "done"}

\* C35: with every ready worker scheduled and every download call returning,
\* every admitted worker eventually terminates, by sys_reboot or by its
\* selfdestruct with the run bit cleared (unless a newer worker has taken
\* over its thread object in the meantime); an Update handled with the bit
\* clear is admitted again; the run bit never stays set for ever without a
\* live worker.
C35_WorkersTerminate ==
    /\ \A w \in Uuids : (wk[w].pc = "ack") ~> (Terminated(w) \/ Racing)
    /\ [][\A w \in Uuids : WorkerReturns(w) /\ ~wk[w].stale => ~run_bit']_vars
    /\ [][\A u \in Uuids : UpdateHandled(u) /\ ~run_bit /\ n_faults' = n_faults
                              => UpdateIsAdmitted(u)]_vars
    /\ (run_bit /\ LiveWorkers = {}) ~> (~run_bit \/ LiveWorkers # {})

\* The creation of the worker thread failed: the run bit is set, no worker
\* exists, and the next Update was turned down.
C35_RunBitSetWithoutWorker ==
    /\ run_bit /\ LiveWorkers = {} /\ phase = "run"
    /\ n_updates = 2 /\ hret = "OTA_ALREADY_IN_PROGRESS"
    /\ \A w \in Uuids : wk[w].pc = "none"

\* The terminal events (Success, Failure) among the events of a log that carry
\* the uuid u.
TerminalsIn(log, u) ==
    {i \in 1..Len(log) : log[i].requestUUID = u /\ log[i].status \in {"Success", "Failure"}}

\* C36: for every admitted request, the worker and every later run of
\* edgehog_ota_init together publish at most one terminal event (Success or
\* Failure) with its uuid, whatever the point at which the device is reset,
\* and so never a Failure and a Success.
C36_AtMostOneTerminalEvent ==
    \A u \in Uuids : seq[u].terminals <= 1

\* The worker published Failure for its request, the device was reset before
\* the worker had deleted ota/req_id, and edgehog_ota_init published a second
\* Failure for the same request.
C36_FailureReportedTwice ==
    /\ n_crashes = 1 /\ n_updates = 1
    /\ seq[1].terminals = 2
    /\ Cardinality(TerminalsIn(rlog, 1)) = 1
    /\ rlog[Len(rlog)].status = "Failure"
    /\ settings.req_id = NoUuid

\* This run of edgehog_ota_init follows a run that returned, with a reset of
\* the idle device and no Update in between.
SecondReconciliation == ReconcilerStep /\ n_crashes > 0 /\ scope = "reboots"

\* C37: a second run of edgehog_ota_init with no Update since the first one
\* publishes no event, finds no request to look at the bootloader for, leaves
\* the bootloader as it is and returns with state = IDLE persisted and
\* ota/req_id absent.
C37_ReconciliationIdempotent ==
    [][SecondReconciliation =>
          /\ NothingPublished
          /\ boot' = boot
          /\ ~ReqIdPersisted
          /\ rpc' \notin {"confirm", "success"}
          /\ phase' = "run" =>
                /\ settings'.req_id = NoUuid
                /\ settings'.state = OTA_STATE_IDLE]_vars

\* The first reconciliation after the swap could not load the record and
\* returned; the device was reset, and the second reconciliation has
\* published the Success of the update.
C37_SecondRunPublishes ==
    /\ scope = "reboots" /\ n_crashes = 1 /\ n_faults = 1
    /\ phase = "boot" /\ rpc = "delete"
    /\ rlog # << >> /\ rlog[Len(rlog)].status = "Success"

\* The run bit is set in this step by the atomic_test_and_set_bit of the
\* Update handler, which found it clear.
SetByUpdateHandler ==
    /\ ~run_bit /\ run_bit'
    /\ \E u \in Uuids : UpdateHandled(u) /\ td'.uuid = u /\ td'.download_url = u

\* The run bit is cleared in this step by the atomic_clear_bit of a worker's
\* selfdestruct.
ClearedByWorkerExit ==
    /\ ~run_bit'
    /\ \E w \in Uuids : wk[w].pc = "clear_bit" /\ wk'[w].pc = "free"

\* The run bit is cleared in this step by the atomic_test_and_clear_bit of the
\* Cancel handler.
ClearedByCancelHandler ==
    /\ ~run_bit'
    /\ CancelHandled /\ hret' = "OK"

\* The device was reset: the memory that holds the run bit starts zeroed.
DeviceReset == phase' = "boot" /\ rpc' = "load"

\* C38: while the device runs, the value of the run bit changes only in the
\* test-and-set of the Update handler, in the clear of a worker's exit and in
\* the test-and-clear of the Cancel handler, each of them one atomic step; no
\* other step of the Update handler, of a worker, of the sink or of
\* edgehog_ota_init changes it.
C38_RunBitWriters ==
    [][run_bit' # run_bit =>
          \/ SetByUpdateHandler
          \/ ClearedByWorkerExit
          \/ ClearedByCancelHandler
          \/ DeviceReset]_vars

\* The bit was set for the first Update and cleared by its worker's exit, set
\* again for the second Update and cleared by a Cancel.
C38_SetAndClearedTwice ==
    /\ wk[1].pc = "done" /\ Live(2)
    /\ n_cancels = 1 /\ cmd.operation = "Cancel" /\ hret = "OK"
    /\ ~run_bit

\* C39: once main has set the termination bit, its k_thread_join of the
\* Astarte thread eventually returns and main terminates, whichever of
\* astarte_device_new, edgehog_device_new, astarte_device_connect and
\* edgehog_device_start fails.
C39_MainTerminates == (app.main = "join") ~> (app.main = "done")

\* edgehog_device_new failed and the Edgehog thread returned without asking
\* for the connection: the Astarte thread waits for that bit, main waits for
\* the Astarte thread.
C39_JoinNeverReturns ==
    /\ app.main = "join"
    /\ app.astarte = "wait_connect"
    /\ app.edgehog = "done" /\ app.edgehog_device = "null"
    /\ ~atomic_test_bit(DEVICE_THREADS_FLAGS_CONNECT_ASTARTE)

=============================================================================
